---- MODULE Spec2Model ----
(***************************************************************************)
(* Model of the FEAST conversation core: one conversation turn of          *)
(* process_conversation (backend/core/conversation.py) wrapped by the      *)
(* /chat endpoint (backend/main.py), over a lineage of turns that hands    *)
(* the returned context to the next turn.                                  *)
(*                                                                         *)
(* Text is modelled as a sequence of lower-case tokens: a token is a word  *)
(* or one of the punctuation marks Quote and Comma.  A keyword of the code *)
(* ("how to", "cook it") is a sequence of tokens and "keyword in text" is  *)
(* a contiguous-subsequence test.  The vocabulary of the modelled          *)
(* utterances holds no word that contains another keyword inside it.       *)
(***************************************************************************)
EXTENDS Integers, Sequences, FiniteSets, TLC

\* ------------------------------------------------------------------------
\* Bounds of the model
\* ------------------------------------------------------------------------
MaxTurns == 2
MaxResults == 1
MaxCalls == 2
MaxTicks == 1
MaxBody == 3
MaxHistory == 12

\* ------------------------------------------------------------------------
\* Text helpers
\* ------------------------------------------------------------------------
Quote == "\""
Comma == ","
Punct == {Quote, Comma}

OneCharTokens == {"i", "a", Quote, Comma}
TwoCharTokens == {"it", "to", "me", "is", "do", "an", "id"}

CharsOf(tok) == IF tok \in OneCharTokens THEN 1 ELSE IF tok \in TwoCharTokens THEN 2 ELSE 3

RECURSIVE SumChars(_)
SumChars(s) == IF s = <<>> THEN 0 ELSE CharsOf(Head(s)) + SumChars(Tail(s))

\* lower bound of len(" ".join(s)), exact below 3
TextLen(s) == IF s = <<>> THEN 0 ELSE SumChars(s) + (Len(s) - 1)

SubSeqFrom(s, i) == IF i > Len(s) THEN <<>> ELSE SubSeq(s, i, Len(s))

MatchesAt(text, ph, i) ==
    /\ i >= 1
    /\ i + Len(ph) - 1 <= Len(text)
    /\ \A k \in 1..Len(ph) : text[i + k - 1] = ph[k]

\* Python: keyword in text
HasPhrase(text, ph) == \E i \in 1..Len(text) : MatchesAt(text, ph, i)

\* Python: any(keyword in text for keyword in keywords)
AnyKeyword(text, kws) == \E ph \in kws : HasPhrase(text, ph)

\* the maximal run of word tokens of text that starts at position j ([\w\s'-]+)
RECURSIVE WordRun(_, _)
WordRun(text, j) ==
    IF j > Len(text) \/ j < 1 THEN <<>>
    ELSE IF text[j] \in Punct THEN <<>>
    ELSE <<text[j]>> \o WordRun(text, j + 1)

\* len(user_message.split()): quotes and commas stick to a word
WordCount(text) == Cardinality({i \in 1..Len(text) : text[i] \notin Punct})

MinOf(S) == CHOOSE x \in S : \A y \in S : x <= y

\* ------------------------------------------------------------------------
\* Enumerations
\* ------------------------------------------------------------------------
DISCOVERY == "discovery"
NARROWING == "narrowing"
COMMITMENT == "commitment"
EXECUTION == "execution"
ADAPTATION == "adaptation"
ConversationPhase == {DISCOVERY, NARROWING, COMMITMENT, EXECUTION, ADAPTATION}

ASK_CLARIFYING_QUESTION == "ask_clarifying_question"
SUGGEST_OPTIONS == "suggest_options"
CONFIRM_CHOICE == "confirm_choice"
PROVIDE_GUIDANCE == "provide_guidance"
ADAPT_RECIPE == "adapt_recipe"
TEACH_CONCEPT == "teach_concept"
AssistantIntent == {ASK_CLARIFYING_QUESTION, SUGGEST_OPTIONS, CONFIRM_CHOICE,
                    PROVIDE_GUIDANCE, ADAPT_RECIPE, TEACH_CONCEPT}

EXACT_SEARCH == "exact_search"
LOOSE_SEARCH == "loose_search"
INGREDIENT_REASONING == "ingredient_reasoning"
NO_SEARCH == "no_search"
Strategy == {EXACT_SEARCH, LOOSE_SEARCH, INGREDIENT_REASONING, NO_SEARCH}

\* "Allowed assistant intents by phase" of SYSTEM_PROMPT
AllowedIntents(phase) ==
    CASE phase = DISCOVERY -> {ASK_CLARIFYING_QUESTION, SUGGEST_OPTIONS}
      [] phase = NARROWING -> {SUGGEST_OPTIONS, CONFIRM_CHOICE}
      [] phase = COMMITMENT -> {CONFIRM_CHOICE}
      [] phase = EXECUTION -> {PROVIDE_GUIDANCE, TEACH_CONCEPT}
      [] phase = ADAPTATION -> {ADAPT_RECIPE, PROVIDE_GUIDANCE}

\* ------------------------------------------------------------------------
\* analyze_intent_and_constraints
\* ------------------------------------------------------------------------
\* (?:recipe for|how to make|make|cook|prepare)\s+([\w\s'-]{3,})
AnalysisDishTriggers ==
    {<<"recipe", "for">>, <<"how", "to", "make">>, <<"make">>, <<"cook">>, <<"prepare">>}

AnalysisDishAt(text, i) ==
    LET phs == {ph \in AnalysisDishTriggers : MatchesAt(text, ph, i)}
    IN  IF phs = {} THEN <<>>
        ELSE LET ph == CHOOSE p \in phs : TRUE
                 run == WordRun(text, i + Len(ph))
             IN  IF TextLen(run) >= 3 THEN run ELSE <<>>

\* re.search: the leftmost position where the pattern matches; <<>> is None
AnalysisDishName(text) ==
    LET hits == {i \in 1..Len(text) : AnalysisDishAt(text, i) # <<>>}
    IN  IF hits = {} THEN <<>> ELSE AnalysisDishAt(text, MinOf(hits))

\* " with " and " using " need a character on both sides
InnerToken(text, w) == \E i \in 2..(Len(text) - 1) : text[i] = w

HasListSeparator(text) ==
    \/ \E i \in 1..Len(text) : text[i] = Comma
    \/ InnerToken(text, "with")
    \/ InnerToken(text, "using")

IsSplitPoint(text, i) ==
    \/ text[i] = Comma
    \/ text[i] \in {"with", "using", "and"} /\ i > 1 /\ i < Len(text)

\* re.split(r"[,/]| with | using | and ", text): the pieces, in order
RECURSIVE SplitTokens(_, _, _)
SplitTokens(text, i, cur) ==
    IF i > Len(text) THEN <<cur>>
    ELSE IF IsSplitPoint(text, i) THEN <<cur>> \o SplitTokens(text, i + 1, <<>>)
    ELSE SplitTokens(text, i + 1, Append(cur, text[i]))

Digits == {"15", "20", "30"}
IsDigitTok(tok) == Len(tok) = 1 /\ tok[1] \in Digits

RECURSIVE KeepIngredientToks(_)
KeepIngredientToks(toks) ==
    IF toks = <<>> THEN <<>>
    ELSE LET tok == Head(toks)
             keep == tok # <<>> /\ WordCount(tok) <= 3 /\ ~IsDigitTok(tok)
         IN  (IF keep THEN <<tok>> ELSE <<>>) \o KeepIngredientToks(Tail(toks))

OptionalIngredients(text) ==
    IF HasListSeparator(text) THEN KeepIngredientToks(SplitTokens(text, 1, <<>>)) ELSE <<>>

diet_flags == {<<"vegan">>, <<"vegetarian">>, <<"keto">>, <<"paleo">>, <<"gluten-free">>,
               <<"dairy-free">>, <<"low", "carb">>, <<"low-carb">>, <<"healthy">>}
time_flags == {<<"15", "min">>, <<"20", "min">>, <<"30", "min">>, <<"quick">>, <<"fast">>,
               <<"under", "20">>, <<"under", "30">>}
\* "no " (with its trailing blank) is the word no followed by anything
allergy_flags == {<<"allergic">>, <<"avoid">>, <<"can't", "eat">>, <<"without">>}
HasNoBlank(text) == \E i \in 1..(Len(text) - 1) : text[i] = "no"

learning_words == {<<"how", "to">>, <<"difference", "between">>, <<"what", "is">>,
                   <<"technique">>, <<"why">>}
browsing_words == {<<"anything">>, <<"ideas">>, <<"bored">>, <<"inspire">>,
                   <<"inspiration">>, <<"suggest">>}

RECURSIVE PrefixEach(_, _)
PrefixEach(label, items) ==
    IF items = <<>> THEN <<>>
    ELSE <<<<label, Head(items)>>>> \o PrefixEach(label, Tail(items))

HardConstraints(text, context) ==
    (IF AnyKeyword(text, allergy_flags) \/ HasNoBlank(text) THEN <<<<"allergy/avoid">>>> ELSE <<>>)
    \o PrefixEach("avoid", context.allergies)

SoftConstraints(text, context) ==
    (IF AnyKeyword(text, diet_flags) THEN <<<<"dietary preference">>>> ELSE <<>>)
    \o (IF AnyKeyword(text, time_flags) THEN <<<<"time: quick">>>> ELSE <<>>)
    \o PrefixEach("diet", context.dietary_restrictions)

\* a classification that looks at the dish name before the learning keywords
ClassifyIntent_dish_first(text, dish_name, optional_ingredients, soft_constraints, hard_constraints) ==
    IF dish_name # <<>> THEN "specific_dish"
    ELSE IF AnyKeyword(text, learning_words) THEN "learning"
    ELSE IF optional_ingredients # <<>> THEN "ingredient_based"
    ELSE IF soft_constraints # <<>> \/ hard_constraints # <<>> THEN "constraint_based"
    ELSE "browsing"

ClassifyIntent(text, dish_name, optional_ingredients, soft_constraints, hard_constraints) ==
    IF AnyKeyword(text, learning_words) THEN "learning"
    ELSE IF dish_name # <<>> THEN "specific_dish"
    ELSE IF optional_ingredients # <<>> THEN "ingredient_based"
    ELSE IF soft_constraints # <<>> \/ hard_constraints # <<>> THEN "constraint_based"
    ELSE IF AnyKeyword(text, browsing_words) THEN "browsing"
    ELSE "browsing"

analyze_intent_and_constraints(user_message, context) ==
    LET dish == AnalysisDishName(user_message)
        opt == OptionalIngredients(user_message)
        hard == HardConstraints(user_message, context)
        soft == SoftConstraints(user_message, context)
    IN  [intent |-> ClassifyIntent(user_message, dish, opt, soft, hard),
         required_ingredients |-> <<>>,
         optional_ingredients |-> opt,
         hard_constraints |-> hard,
         soft_constraints |-> soft,
         dish_name |-> dish]

\* ------------------------------------------------------------------------
\* Phase & strategy engine
\* ------------------------------------------------------------------------
adaptation_keywords == {<<"swap">>, <<"substitute">>, <<"instead">>, <<"without">>,
                        <<"ran", "out">>, <<"out", "of">>, <<"can't", "have">>,
                        <<"allergic">>, <<"replace">>}
execution_keywords == {<<"next", "step">>, <<"what's", "next">>, <<"temperature">>,
                       <<"preheat">>, <<"bake">>, <<"simmer">>, <<"timer">>,
                       <<"cook", "it">>, <<"how", "long">>, <<"step">>}
choice_keywords == {<<"i'll", "take">>, <<"i'll", "go", "with">>, <<"let's", "make">>,
                    <<"let's", "do">>, <<"choose">>, <<"pick">>, <<"the", "first", "one">>,
                    <<"the", "second", "one">>, <<"go", "with">>}

\* an inference that looks at the options already shown before the choice keywords
determine_conversation_phase_options_first(user_message, context, analysis, recipe_detail_requested) ==
    IF AnyKeyword(user_message, adaptation_keywords) THEN ADAPTATION
    ELSE IF AnyKeyword(user_message, execution_keywords) THEN EXECUTION
    ELSE IF recipe_detail_requested \/ analysis.dish_name # <<>> THEN COMMITMENT
    ELSE IF context.last_recommended_recipes # <<>> THEN NARROWING
    ELSE IF AnyKeyword(user_message, choice_keywords) THEN COMMITMENT
    ELSE IF analysis.intent \in {"ingredient_based", "constraint_based"}
            /\ (context.ingredients # <<>> \/ context.dietary_restrictions # <<>>)
         THEN NARROWING
    ELSE DISCOVERY

\* an inference that lets a learning or browsing intent start in discovery before it
\* looks at the options already shown
determine_conversation_phase_discovery_first(user_message, context, analysis, recipe_detail_requested) ==
    IF AnyKeyword(user_message, adaptation_keywords) THEN ADAPTATION
    ELSE IF AnyKeyword(user_message, execution_keywords) THEN EXECUTION
    ELSE IF recipe_detail_requested \/ analysis.dish_name # <<>> THEN COMMITMENT
    ELSE IF AnyKeyword(user_message, choice_keywords) THEN COMMITMENT
    ELSE IF analysis.intent \in {"learning", "browsing"} THEN DISCOVERY
    ELSE IF context.last_recommended_recipes # <<>> THEN NARROWING
    ELSE IF analysis.intent \in {"ingredient_based", "constraint_based"}
         THEN (IF context.ingredients # <<>> \/ context.dietary_restrictions # <<>>
               THEN NARROWING ELSE DISCOVERY)
    ELSE DISCOVERY

determine_conversation_phase(user_message, context, analysis, recipe_detail_requested) ==
    IF AnyKeyword(user_message, adaptation_keywords) THEN ADAPTATION
    ELSE IF AnyKeyword(user_message, execution_keywords) THEN EXECUTION
    ELSE IF recipe_detail_requested \/ analysis.dish_name # <<>> THEN COMMITMENT
    ELSE IF AnyKeyword(user_message, choice_keywords) THEN COMMITMENT
    ELSE IF context.last_recommended_recipes # <<>> THEN NARROWING
    ELSE IF analysis.intent \in {"learning", "browsing"} THEN DISCOVERY
    ELSE IF analysis.intent \in {"ingredient_based", "constraint_based"}
         THEN (IF context.ingredients # <<>> \/ context.dietary_restrictions # <<>>
               THEN NARROWING ELSE DISCOVERY)
    ELSE DISCOVERY

should_ask_clarifying_question(analysis, context) ==
    IF analysis.intent = "learning" THEN FALSE
    ELSE IF analysis.dish_name # <<>> THEN FALSE
    ELSE IF analysis.optional_ingredients # <<>> \/ context.ingredients # <<>> THEN FALSE
    ELSE TRUE

\* a discovery turn that asks whatever the clarification gate says
choose_assistant_intent_always_asks(phase, analysis, needs_clarification) ==
    IF phase = ADAPTATION THEN ADAPT_RECIPE
    ELSE IF phase = EXECUTION
         THEN (IF analysis.intent # "learning" THEN PROVIDE_GUIDANCE ELSE TEACH_CONCEPT)
    ELSE IF phase = COMMITMENT THEN CONFIRM_CHOICE
    ELSE IF phase = NARROWING THEN SUGGEST_OPTIONS
    ELSE IF phase = DISCOVERY
         THEN (IF analysis.intent = "learning" THEN TEACH_CONCEPT ELSE ASK_CLARIFYING_QUESTION)
    ELSE SUGGEST_OPTIONS

choose_assistant_intent(phase, analysis, needs_clarification) ==
    IF phase = ADAPTATION THEN ADAPT_RECIPE
    ELSE IF phase = EXECUTION
         THEN (IF analysis.intent # "learning" THEN PROVIDE_GUIDANCE ELSE TEACH_CONCEPT)
    ELSE IF phase = COMMITMENT THEN CONFIRM_CHOICE
    ELSE IF phase = NARROWING
         THEN (IF ~needs_clarification THEN SUGGEST_OPTIONS ELSE SUGGEST_OPTIONS)
    ELSE IF phase = DISCOVERY
         THEN (IF analysis.intent = "learning" THEN TEACH_CONCEPT
               ELSE IF needs_clarification THEN ASK_CLARIFYING_QUESTION ELSE SUGGEST_OPTIONS)
    ELSE SUGGEST_OPTIONS

\* a selection that lets a resolved dish name override the intent class
decide_strategy_by_dish_name(analysis) ==
    IF analysis.dish_name # <<>> THEN EXACT_SEARCH
    ELSE IF analysis.intent = "ingredient_based" THEN INGREDIENT_REASONING
    ELSE IF analysis.intent = "learning" THEN NO_SEARCH
    ELSE LOOSE_SEARCH

decide_strategy(analysis) ==
    IF analysis.intent = "specific_dish" THEN EXACT_SEARCH
    ELSE IF analysis.intent = "ingredient_based" THEN INGREDIENT_REASONING
    ELSE IF analysis.intent = "constraint_based" THEN LOOSE_SEARCH
    ELSE IF analysis.intent = "learning" THEN NO_SEARCH
    ELSE LOOSE_SEARCH

NoRecipe == [recipe_id |-> "", recipe_name |-> ""]

\* process_conversation, "Initialize conversation state" to the end of the
\* intent correction
InitialState(phase, assistant_intent) ==
    [bound |-> TRUE,
     phase |-> phase,
     assistant_intent |-> assistant_intent,
     active_recipe |-> NoRecipe,
     allow_recipe_identity_clarification |-> TRUE]

RecoverActiveRecipe(st, context) ==
    IF st.phase \in {COMMITMENT, EXECUTION, ADAPTATION}
       /\ st.active_recipe = NoRecipe
       /\ context.last_recommended_recipes # <<>>
    THEN [st EXCEPT !.active_recipe =
                        [recipe_id |-> context.last_recommended_recipes[Len(context.last_recommended_recipes)],
                         recipe_name |-> "selected recipe"],
                    !.allow_recipe_identity_clarification = FALSE]
    ELSE st

EnforceClarificationLock(st) ==
    IF st.phase \in {COMMITMENT, EXECUTION, ADAPTATION}
    THEN [st EXCEPT !.allow_recipe_identity_clarification = FALSE]
    ELSE st

CorrectIntent(st) ==
    IF ~st.allow_recipe_identity_clarification /\ st.assistant_intent = ASK_CLARIFYING_QUESTION
    THEN [st EXCEPT !.assistant_intent =
            IF st.phase = NARROWING THEN SUGGEST_OPTIONS
            ELSE IF st.phase = COMMITMENT THEN CONFIRM_CHOICE
            ELSE IF st.phase = EXECUTION THEN PROVIDE_GUIDANCE
            ELSE IF st.phase = ADAPTATION THEN ADAPT_RECIPE
            ELSE SUGGEST_OPTIONS]
    ELSE st

TurnState(user_message, context, recipe_detail_requested) ==
    LET analysis == analyze_intent_and_constraints(user_message, context)
        needs == should_ask_clarifying_question(analysis, context)
        phase == determine_conversation_phase(user_message, context, analysis, recipe_detail_requested)
        intent == choose_assistant_intent(phase, analysis, needs)
    IN  CorrectIntent(EnforceClarificationLock(RecoverActiveRecipe(InitialState(phase, intent), context)))

\* ------------------------------------------------------------------------
\* Response contract enforcer
\* ------------------------------------------------------------------------
NL == "\n"
Colon == ":"
ResponseMarkers == {"[RESPONSE]", "[response]", "[Response]"}
SEARCH_TAG == "[SEARCH_RECIPES]"
SNAPSHOT_TAG == "[REASONING SNAPSHOT]"
FALLBACK_MESSAGE == <<"I'm here and ready to help, what would you like to cook or clarify?">>

RECURSIVE LStrip(_)
LStrip(s) == IF s # <<>> /\ Head(s) = NL THEN LStrip(Tail(s)) ELSE s

RECURSIVE RStrip(_)
RStrip(s) == IF s # <<>> /\ s[Len(s)] = NL THEN RStrip(SubSeq(s, 1, Len(s) - 1)) ELSE s

StripWs(s) == LStrip(RStrip(s))

\* re.sub(r'Looking for:.*?(?=\n|$)', '', ...): drops up to the end of the line
RECURSIVE DropLookingFor(_, _)
DropLookingFor(s, dropping) ==
    IF s = <<>> THEN <<>>
    ELSE IF dropping
         THEN (IF Head(s) = NL THEN <<NL>> \o DropLookingFor(Tail(s), FALSE)
               ELSE DropLookingFor(Tail(s), TRUE))
    ELSE IF MatchesAt(s, <<"Looking", "for", Colon>>, 1)
         THEN DropLookingFor(SubSeqFrom(s, 4), TRUE)
    ELSE <<Head(s)>> \o DropLookingFor(Tail(s), FALSE)

clean_response_for_display(response) ==
    StripWs(DropLookingFor(SelectSeq(response, LAMBDA t : t # SEARCH_TAG), FALSE))

\* everything before the first [REASONING SNAPSHOT]
RECURSIVE CutAtSnapshot(_)
CutAtSnapshot(s) ==
    IF s = <<>> THEN <<>>
    ELSE IF Head(s) = SNAPSHOT_TAG THEN <<>>
    ELSE <<Head(s)>> \o CutAtSnapshot(Tail(s))

\* re.sub(r"\n{3,}", "\n\n", ...)
RECURSIVE CollapseBlank(_, _)
CollapseBlank(s, run) ==
    IF s = <<>> THEN <<>>
    ELSE IF Head(s) = NL
         THEN (IF run >= 2 THEN CollapseBlank(Tail(s), run + 1)
               ELSE <<NL>> \o CollapseBlank(Tail(s), run + 1))
    ELSE <<Head(s)>> \o CollapseBlank(Tail(s), 0)

MarkerPositions(response) == {i \in 1..Len(response) : response[i] \in ResponseMarkers}

strip_structured_tags(response) ==
    IF MarkerPositions(response) = {}
    THEN LET cleaned_all == CollapseBlank(StripWs(CutAtSnapshot(clean_response_for_display(response))), 0)
         IN  IF cleaned_all = <<>> THEN FALLBACK_MESSAGE ELSE cleaned_all
    ELSE LET m == MinOf(MarkerPositions(response))
             afterWs == LStrip(SubSeqFrom(response, m + 1))
             start == IF afterWs # <<>> /\ Head(afterWs) = Colon THEN Tail(afterWs) ELSE afterWs
             response_only == LStrip(start)
         IN  IF StripWs(response_only) = <<>> THEN FALLBACK_MESSAGE
             ELSE clean_response_for_display(response_only)

should_search_recipes(llm_response) == \E i \in 1..Len(llm_response) : llm_response[i] = SEARCH_TAG

\* ------------------------------------------------------------------------
\* extract_context_from_response
\* ------------------------------------------------------------------------
InText(text, w) == \E i \in 1..Len(text) : text[i] = w
InList(list, x) == \E i \in 1..Len(list) : list[i] = x

common_ingredients ==
    <<"chicken", "beef", "pork", "fish", "salmon", "shrimp", "tofu", "eggs",
      "rice", "pasta", "noodles", "bread", "potato", "potatoes",
      "tomato", "tomatoes", "onion", "garlic", "carrot", "broccoli", "spinach",
      "cheese", "milk", "cream", "butter", "yogurt",
      "beans", "lentils", "chickpeas">>
allergens == <<"nuts", "peanuts", "dairy", "gluten", "shellfish", "eggs", "soy", "wheat", "fish">>
allergy_keywords == {<<"allergic", "to">>, <<"allergy">>, <<"intolerant">>, <<"can't", "eat">>,
                     <<"don't", "eat">>, <<"avoid">>, <<"without">>}
cuisines == <<"italian", "mexican", "chinese", "japanese", "indian", "thai",
              "french", "greek", "korean", "vietnamese", "american", "mediterranean">>
meal_keywords == <<"breakfast", "lunch", "dinner", "snack", "dessert", "brunch">>
MealOf(keyword) == IF keyword = "brunch" THEN "breakfast" ELSE keyword
quick_words == {<<"quick">>, <<"fast">>, <<"15", "min">>, <<"20", "min">>, <<"30", "min">>, <<"hurry">>}
long_words == {<<"slow">>, <<"hour">>, <<"hours">>, <<"time">>}
diets == <<"vegetarian", "vegan", "keto", "low-carb", "gluten-free", "dairy-free", "healthy", "low-fat">>

\* for x in names: if x in text and x not in target: target.append(x)
RECURSIVE AppendMentioned(_, _, _)
AppendMentioned(target, names, text) ==
    IF names = <<>> THEN target
    ELSE LET x == Head(names)
             next == IF InText(text, x) /\ ~InList(target, x) THEN Append(target, x) ELSE target
         IN  AppendMentioned(next, Tail(names), text)

\* for x in names: if x in text: return x  (first hit, else the old value)
RECURSIVE FirstMentioned(_, _, _)
FirstMentioned(names, text, old) ==
    IF names = <<>> THEN old
    ELSE IF InText(text, Head(names)) THEN Head(names)
    ELSE FirstMentioned(Tail(names), text, old)

\* an extractor that keeps only what the current message mentions
extract_context_overwrites(user_message, context) ==
    LET allergyCue == AnyKeyword(user_message, allergy_keywords) \/ HasNoBlank(user_message)
        meal == FirstMentioned(meal_keywords, user_message, "")
    IN  [context EXCEPT
            !.ingredients = AppendMentioned(<<>>, common_ingredients, user_message),
            !.allergies = IF allergyCue
                          THEN AppendMentioned(<<>>, allergens, user_message)
                          ELSE context.allergies,
            !.cuisine_preference = FirstMentioned(cuisines, user_message, context.cuisine_preference),
            !.meal_type = IF meal = "" THEN context.meal_type ELSE MealOf(meal),
            !.cooking_time = IF AnyKeyword(user_message, quick_words) THEN "quick"
                             ELSE IF AnyKeyword(user_message, long_words) THEN "long"
                             ELSE context.cooking_time,
            !.dietary_restrictions = AppendMentioned(<<>>, diets, user_message)]

extract_context_from_response(user_message, context) ==
    LET allergyCue == AnyKeyword(user_message, allergy_keywords) \/ HasNoBlank(user_message)
        meal == FirstMentioned(meal_keywords, user_message, "")
    IN  [context EXCEPT
            !.ingredients = AppendMentioned(context.ingredients, common_ingredients, user_message),
            !.allergies = IF allergyCue
                          THEN AppendMentioned(context.allergies, allergens, user_message)
                          ELSE context.allergies,
            !.cuisine_preference = FirstMentioned(cuisines, user_message, context.cuisine_preference),
            !.meal_type = IF meal = "" THEN context.meal_type ELSE MealOf(meal),
            !.cooking_time = IF AnyKeyword(user_message, quick_words) THEN "quick"
                             ELSE IF AnyKeyword(user_message, long_words) THEN "long"
                             ELSE context.cooking_time,
            !.dietary_restrictions = AppendMentioned(context.dietary_restrictions, diets, user_message)]

\* process_conversation: context.has_enough_context = bool(...)
WithEnoughContext(context) ==
    [context EXCEPT !.has_enough_context =
        \/ context.ingredients # <<>>
        \/ context.allergies # <<>>
        \/ context.cuisine_preference # ""
        \/ context.dietary_restrictions # <<>>]

EmptyContext ==
    [ingredients |-> <<>>, allergies |-> <<>>, cuisine_preference |-> "",
     dietary_restrictions |-> <<>>, meal_type |-> "", cooking_time |-> "",
     has_enough_context |-> FALSE, last_recommended_recipes |-> <<>>]

\* ------------------------------------------------------------------------
\* process_conversation: text patterns
\* ------------------------------------------------------------------------
\* (?:i'?d like to make|tell me (?:more )?about|how (?:do i make|to make)|show me
\*  |details? (?:for|about)|make) ['"]([^'"]+)['"]
DetailTriggers ==
    {<<"i'd", "like", "to", "make">>, <<"id", "like", "to", "make">>,
     <<"tell", "me", "about">>, <<"tell", "me", "more", "about">>,
     <<"how", "do", "i", "make">>, <<"how", "to", "make">>, <<"show", "me">>,
     <<"detail", "for">>, <<"details", "for">>, <<"detail", "about">>, <<"details", "about">>,
     <<"make">>}

\* the tokens from position j up to the next quote; <<>> when no quote closes them
RECURSIVE QuotedFrom(_, _)
QuotedFrom(text, j) ==
    IF j > Len(text) THEN <<>>
    ELSE IF text[j] = Quote THEN <<Quote>>
    ELSE LET rest == QuotedFrom(text, j + 1)
         IN  IF rest = <<>> THEN <<>> ELSE <<text[j]>> \o rest

DetailTitleAt(text, i) ==
    LET phs == {ph \in DetailTriggers : MatchesAt(text, ph, i)
                                        /\ i + Len(ph) <= Len(text)
                                        /\ text[i + Len(ph)] = Quote}
    IN  IF phs = {} THEN <<>>
        ELSE LET ph == CHOOSE p \in phs : TRUE
                 q == QuotedFrom(text, i + Len(ph) + 1)
             IN  IF Len(q) >= 2 THEN SubSeq(q, 1, Len(q) - 1) ELSE <<>>

\* recipe_detail_match.group(1); <<>> when the pattern does not match
recipe_detail_title(user_message) ==
    LET hits == {i \in 1..Len(user_message) : DetailTitleAt(user_message, i) # <<>>}
    IN  IF hits = {} THEN <<>> ELSE DetailTitleAt(user_message, MinOf(hits))

\* (?:how (?:to|do i|can i) (?:make|cook|prepare)|recipe for|show me (?:a|an|the)?|make me
\*  |cook|i want|give me|i'd like to make|i would like to make) (?:some |a |an |the )?([\w\s'-]+)
DirectTriggers ==
    {<<"how", "to", "make">>, <<"how", "to", "cook">>, <<"how", "to", "prepare">>,
     <<"how", "do", "i", "make">>, <<"how", "do", "i", "cook">>, <<"how", "do", "i", "prepare">>,
     <<"how", "can", "i", "make">>, <<"how", "can", "i", "cook">>, <<"how", "can", "i", "prepare">>,
     <<"recipe", "for">>, <<"show", "me">>, <<"make", "me">>, <<"cook">>, <<"i", "want">>,
     <<"give", "me">>, <<"i'd", "like", "to", "make">>, <<"i", "would", "like", "to", "make">>}
Articles == {"some", "a", "an", "the"}

\* "show me (?:a|an|the)? " needs the article: without it two blanks must follow
AfterTrigger(ph, run) ==
    IF ph = <<"show", "me">>
    THEN (IF Len(run) >= 2 /\ run[1] \in {"a", "an", "the"} THEN Tail(run) ELSE <<>>)
    ELSE run

DropArticle(run) == IF Len(run) >= 2 /\ run[1] \in Articles THEN Tail(run) ELSE run

DirectGroupAt(text, i) ==
    LET phs == {ph \in DirectTriggers :
                   MatchesAt(text, ph, i) /\ AfterTrigger(ph, WordRun(text, i + Len(ph))) # <<>>}
    IN  IF phs = {} THEN <<>>
        ELSE LET ph == CHOOSE p \in phs : \A o \in phs : Len(p) >= Len(o)
             IN  DropArticle(AfterTrigger(ph, WordRun(text, i + Len(ph))))

TrailingWords == {"recipe", "recipes", "please", "thanks"}
\* re.sub(r'\s+(recipe|recipes|please|thanks|how do i make them)[\?,!]*$', '', ...)
DropTrailing(s) ==
    IF Len(s) >= 2 /\ s[Len(s)] \in TrailingWords THEN SubSeq(s, 1, Len(s) - 1)
    ELSE IF Len(s) >= 6 /\ MatchesAt(s, <<"how", "do", "i", "make", "them">>, Len(s) - 4)
         THEN SubSeq(s, 1, Len(s) - 5)
    ELSE s

\* Pattern 1 of the direct dish detection, cleaned
DirectDishName(user_message) ==
    LET hits == {i \in 1..Len(user_message) : DirectGroupAt(user_message, i) # <<>>}
    IN  IF hits = {} THEN <<>> ELSE DropTrailing(DirectGroupAt(user_message, MinOf(hits)))

ShortPrefixes == {<<"make">>, <<"cook">>, <<"recipe", "for">>, <<"show", "me">>, <<"i", "want">>,
                  <<"give", "me">>, <<"how", "to", "make">>}

\* re.sub(r'^(make|cook|...)\s+', '', user_message)
DropPrefix(text) ==
    LET phs == {ph \in ShortPrefixes : MatchesAt(text, ph, 1)
                                       /\ Len(text) > Len(ph)
                                       /\ text[Len(ph) + 1] # Comma}
    IN  IF phs = {} THEN text
        ELSE SubSeqFrom(text, Len(CHOOSE p \in phs : TRUE) + 1)

\* Pattern 2: a short message may be just a dish name
ShortMessageDish(user_message) ==
    IF WordCount(user_message) <= 5
    THEN LET potential_dish == DropTrailing(DropPrefix(user_message))
         IN  IF TextLen(potential_dish) > 2 THEN potential_dish ELSE <<>>
    ELSE <<>>

\* dish_name of process_conversation; <<>> is None
detect_dish_name(user_message) ==
    IF DirectDishName(user_message) # <<>> THEN DirectDishName(user_message)
    ELSE ShortMessageDish(user_message)

\* rapidfuzz.fuzz.ratio on the titles of the model: 100 * 2 * LCS / (len1 + len2)
FuzzTable == {<<<<"pie">>, <<"pies">>, 85>>, <<<<"pie">>, <<"pierogi">>, 60>>}

fuzz_ratio(a, b) ==
    IF a = b THEN 100
    ELSE LET rows == {r \in FuzzTable : r[1] = a /\ r[2] = b}
         IN  IF rows = {} THEN 0 ELSE (CHOOSE r \in rows : TRUE)[3]

MATCH_THRESHOLD == 60

NoMatch == [found |-> FALSE, title |-> <<>>, score |-> 0]

\* the threshold test of the detail path taken one point too low
accept_match_at_threshold(best) == best.found /\ best.score >= MATCH_THRESHOLD

\* if best_match and best_score > 60
accept_match(best) == best.found /\ best.score > MATCH_THRESHOLD

\* the best-match loop over the candidates
RECURSIVE best_match_of(_, _, _)
best_match_of(recipe_title, candidates, best) ==
    IF candidates = <<>> THEN best
    ELSE LET score == fuzz_ratio(recipe_title, Head(candidates))
             next == IF score > best.score
                     THEN [found |-> TRUE, title |-> Head(candidates), score |-> score]
                     ELSE best
         IN  best_match_of(recipe_title, Tail(candidates), next)

\* ------------------------------------------------------------------------
\* Inputs of the model
\* ------------------------------------------------------------------------
Utterances ==
    {<<"hello">>,
     <<"why", "pasta">>,
     <<"why", "bake", "it">>,
     <<"how", "to", "make", "pasta">>,
     <<"i", "want", "to", "make", "pasta">>,
     <<"chicken", Comma, "rice">>,
     <<"something", "with", "chicken">>,
     <<"i", "need", "some", "quick", "vegan", "ideas">>,
     <<"allergic", "to", "gluten">>,
     <<"how", "long", "to", "bake", "it">>,
     <<"cook", "it">>,
     <<"pick", "the", "first", "one">>,
     <<"show", "me", Quote, "pie", Quote>>,
     <<"make", Quote, "pie", Quote>>,
     <<"tell", "me", "about", Quote, "pie", Quote, "and", "the", "technique", "today">>,
     <<"i", "am", "really", "hungry", "tonight", "friends">>}

\* titles the search endpoint may answer with
CandidateTitles == {<<"pies">>, <<"pierogi">>}

RECURSIVE SeqsUpTo(_, _)
SeqsUpTo(S, n) ==
    IF n = 0 THEN {<<>>}
    ELSE LET shorter == SeqsUpTo(S, n - 1)
         IN  shorter \cup {Append(q, x) : q \in {r \in shorter : Len(r) = n - 1}, x \in S}

SearchResults == SeqsUpTo(CandidateTitles, MaxResults)

\* get_full_recipe: None, a recipe without ingredients, a full recipe
FetchOutcomes == {"none", "no_ingredients", "full"}

\* raw completions of the LLM endpoint
LLMOutputs ==
    {<<"[ASSISTANT_INTENT]", Colon, "suggest_options", NL,
       "[USER_GOAL_SUMMARY]", Colon, "goal", NL,
       "[RESPONSE]", Colon, NL, "try", "this">>,
     <<"sure", "thing">>,
     <<"[RESPONSE]", Colon, SEARCH_TAG, "searching">>}

\* errors call_llm_async raises once its attempts are used up
LLMErrors == {"RateLimitError", "APIError"}

\* what the LLM endpoint can answer to one HTTP request of call_llm_async
LLMEndpointOutcomes ==
    {"200", "200_empty", "200_not_json", "429", "429_http_date", "503", "timeout", "network_error"}

\* what the recipe endpoint can answer to one HTTP request of _make_request
SearchEndpointOutcomes ==
    {"200", "200_not_json", "402", "429", "500", "404", "timeout", "network_error"}

LLM_MAX_RETRIES == 3
max_retries == 3

\* the client side of the call in flight: requests sent, the outcome that ended the
\* call, and how the call ended ("pending" while it has not)
IdleClient == [requests |-> 0, last |-> "", verdict |-> "pending"]
Ended(c, outcome, verdict) == [requests |-> c.requests + 1, last |-> outcome, verdict |-> verdict]
Retrying(c) == [requests |-> c.requests + 1, last |-> "", verdict |-> "pending"]

\* a client that allows one attempt more than configured
call_llm_async_one_more(c, outcome) ==
    CASE outcome = "200" -> Ended(c, outcome, "ok")
      [] outcome = "429_http_date" -> Ended(c, outcome, "ValueError")
      [] outcome = "429" ->
            IF c.requests < LLM_MAX_RETRIES THEN Retrying(c)
            ELSE Ended(c, outcome, "RateLimitError")
      [] outcome = "200_not_json" -> Ended(c, outcome, "JSONDecodeError")
      [] outcome = "200_null_choice" -> Ended(c, outcome, "AttributeError")
      [] outcome \in {"timeout", "network_error"} ->
            IF c.requests < LLM_MAX_RETRIES THEN Retrying(c)
            ELSE Ended(c, outcome, "APIError")
      [] OTHER -> Ended(c, outcome, "APIError")

\* one pass of the loop "for attempt in range(LLM_MAX_RETRIES)"; attempt = c.requests
call_llm_async(c, outcome) ==
    CASE outcome = "200" -> Ended(c, outcome, "ok")
      \* int(response.headers.get("Retry-After", ...)) on a header that is not an integer
      [] outcome = "429_http_date" -> Ended(c, outcome, "ValueError")
      [] outcome = "429" ->
            IF c.requests < LLM_MAX_RETRIES - 1 THEN Retrying(c)
            ELSE Ended(c, outcome, "RateLimitError")
      \* response.json() outside any handler
      [] outcome = "200_not_json" -> Ended(c, outcome, "JSONDecodeError")
      \* data["choices"][0].get(...) on a choice that is null
      [] outcome = "200_null_choice" -> Ended(c, outcome, "AttributeError")
      [] outcome \in {"timeout", "network_error"} ->
            IF c.requests < LLM_MAX_RETRIES - 1 THEN Retrying(c)
            ELSE Ended(c, outcome, "APIError")
      \* any other status, no choices, empty content: raise APIError
      [] OTHER -> Ended(c, outcome, "APIError")

\* a request loop without the handler "except Exception"
make_request_unguarded(c, outcome) ==
    CASE outcome = "200" -> Ended(c, outcome, "json")
      [] outcome \in {"429", "500", "timeout"} ->
            IF c.requests < max_retries - 1 THEN Retrying(c) ELSE Ended(c, outcome, "none")
      [] outcome \in {"network_error", "200_not_json"} -> Ended(c, outcome, "RequestError")
      [] OTHER -> Ended(c, outcome, "none")

\* a request loop that takes 402 for one of the statuses worth another attempt
make_request_retries_402(c, outcome) ==
    CASE outcome = "200" -> Ended(c, outcome, "json")
      [] outcome \in {"402", "429", "500", "timeout"} ->
            IF c.requests < max_retries - 1 THEN Retrying(c) ELSE Ended(c, outcome, "none")
      [] OTHER -> Ended(c, outcome, "none")

\* statuses _make_request tries again on
retry_statuses == {"429", "500", "502", "503", "522"}

\* one pass of the loop "for attempt in range(self.max_retries)" of _make_request on an
\* instance whose max_retries is limit: it ends with the decoded body or with None
make_request_of(c, outcome, limit) ==
    CASE outcome = "200" -> Ended(c, outcome, "json")
      [] outcome \in retry_statuses \cup {"timeout"} ->
            IF c.requests < limit - 1 THEN Retrying(c) ELSE Ended(c, outcome, "none")
      [] OTHER -> Ended(c, outcome, "none")

\* the same on the instance as constructed
make_request(c, outcome) == make_request_of(c, outcome, max_retries)

\* self.retry_delay, in seconds
retry_delay == 1

\* asyncio.sleep(self.retry_delay * (attempt + 1))
search_backoff(attempt) == retry_delay * (attempt + 1)

\* an answer of the LLM endpoint with its Retry-After header: absent, a number of
\* seconds, or an HTTP date
Answer(outcome, header, seconds) == [outcome |-> outcome, header |-> header, seconds |-> seconds]
Plain(outcome) == Answer(outcome, "absent", 0)
RetryAfterSeconds == {0, 7}
LLMAnswers ==
    {Plain(o) : o \in {"200", "200_empty", "200_not_json", "200_null_choice", "429", "503",
                       "timeout", "network_error"}}
    \cup {Answer("429", "seconds", n) : n \in RetryAfterSeconds}
    \cup {Answer("429", "http_date", 0)}

\* the outcome of the request as call_llm_async tells them apart
StatusOf(a) == IF a.outcome = "429" /\ a.header = "http_date" THEN "429_http_date" ELSE a.outcome

\* int(response.headers.get("Retry-After", 2 ** attempt)) after a 429, 2 ** attempt after
\* a timeout or a transport error
llm_backoff(attempt, a) ==
    IF a.outcome = "429" /\ a.header = "seconds" THEN a.seconds ELSE 2 ^ attempt

\* answers of the recipe endpoint to one request of the retry loop
RetryEndpointOutcomes == SearchEndpointOutcomes \cup {"504"}

\* ------------------------------------------------------------------------
\* The response cache of the search client (SpoonacularAPI)
\* ------------------------------------------------------------------------
cache_ttl == 300
CACHE_LIMIT == 100
SECONDS_PER_DAY == 86400

\* turns that run at the same time on the one event loop
Tasks == {1, 2}
\* cache keys (endpoint and sorted parameters) the turns ask for: one that an earlier
\* call may have cached, one that no earlier call has
RequestKeys == {1, CACHE_LIMIT + 1}
\* answers of the endpoint to one request: success, quota exhausted, retryable status
CacheEndpointOutcomes == {"200", "402", "429"}
\* decoded bodies of a 200 response
Payloads == {"r1", "r2"}
\* time that passes between two steps
Delays == {cache_ttl, SECONDS_PER_DAY}

\* a cache filled by n successful calls, one per second, each with a key of its own
Prefilled(n) == [k \in 1..n |-> [key |-> k, result |-> "r1", timestamp |-> k]]
InitialCaches == {<<>>, Prefilled(CACHE_LIMIT - 1), Prefilled(CACHE_LIMIT)}

NoEntry == [key |-> 0, result |-> "None", timestamp |-> 0]
Never == [at |-> -1, result |-> "None"]

\* key in self._cache, self._cache[key]
Has(c, key) == \E i \in 1..Len(c) : c[i].key = key
IndexOf(c, key) == CHOOSE i \in 1..Len(c) : c[i].key = key
EntryOf(c, key) == IF Has(c, key) THEN c[IndexOf(c, key)] ELSE NoEntry

\* del self._cache[key]
Without(c, i) == SubSeq(c, 1, i - 1) \o SubSeq(c, i + 1, Len(c))

\* timedelta.seconds: the seconds field of the difference, its days left out
timedelta_seconds(d) == d % SECONDS_PER_DAY

\* a lookup that compares the whole difference with the TTL the wrong way round
get_cached_stale_only(c, key, t) ==
    IF ~Has(c, key) THEN [result |-> "None", cache |-> c]
    ELSE IF timedelta_seconds(t - EntryOf(c, key).timestamp) >= cache_ttl
         THEN [result |-> EntryOf(c, key).result, cache |-> c]
         ELSE [result |-> "None", cache |-> Without(c, IndexOf(c, key))]

\* _get_cached: the cached result if valid, else None with the stale entry deleted
get_cached(c, key, t) ==
    IF ~Has(c, key) THEN [result |-> "None", cache |-> c]
    ELSE IF timedelta_seconds(t - EntryOf(c, key).timestamp) < cache_ttl
         THEN [result |-> EntryOf(c, key).result, cache |-> c]
         ELSE [result |-> "None", cache |-> Without(c, IndexOf(c, key))]

\* min(self._cache.keys(), key=timestamp): the first of the dict among the oldest
oldest(c) ==
    CHOOSE i \in 1..Len(c) :
        /\ \A j \in 1..Len(c) : c[j].timestamp >= c[i].timestamp
        /\ \A j \in 1..(i - 1) : c[j].timestamp > c[i].timestamp

\* the last of the dict among the newest
newest(c) ==
    CHOOSE i \in 1..Len(c) :
        /\ \A j \in 1..Len(c) : c[j].timestamp <= c[i].timestamp
        /\ \A j \in (i + 1)..Len(c) : c[j].timestamp < c[i].timestamp

\* self._cache[key] = (result, datetime.now()): a key of the dict keeps its place
Store(c, key, result, t) ==
    IF Has(c, key)
    THEN [c EXCEPT ![IndexOf(c, key)] = [key |-> key, result |-> result, timestamp |-> t]]
    ELSE Append(c, [key |-> key, result |-> result, timestamp |-> t])

\* a cache that makes room by dropping its newest entry
set_cache_evict_newest(c, key, result, t) ==
    IF Len(Store(c, key, result, t)) > CACHE_LIMIT
    THEN Without(Store(c, key, result, t), newest(Store(c, key, result, t)))
    ELSE Store(c, key, result, t)

\* a cache that appends every result it is given
set_cache_appends(c, key, result, t) ==
    IF Len(Append(c, [key |-> key, result |-> result, timestamp |-> t])) > CACHE_LIMIT
    THEN Tail(Append(c, [key |-> key, result |-> result, timestamp |-> t]))
    ELSE Append(c, [key |-> key, result |-> result, timestamp |-> t])

\* _set_cache
set_cache(c, key, result, t) ==
    IF Len(Store(c, key, result, t)) > CACHE_LIMIT
    THEN Without(Store(c, key, result, t), oldest(Store(c, key, result, t)))
    ELSE Store(c, key, result, t)

\* one _make_request call: where it is, its key, its request loop, the last answer of
\* the endpoint, what the call returned, and what the lookup found: the entry of the key, the last cached response of the key,
\* the time of the lookup, whether the other turn was waiting for the same key
IdleRequest ==
    [pc |-> "idle", key |-> 0, client |-> IdleClient, answer |-> "", result |-> "None",
     entry |-> NoEntry, prev |-> Never, at |-> 0, raced |-> FALSE]

\* ------------------------------------------------------------------------
\* State
\* ------------------------------------------------------------------------
VARIABLES
    turn,                     \* number of turns started in this lineage
    pc,                       \* position of the turn inside chat / process_conversation
    user_message,
    context,                  \* the caller's ConversationContext object
    ctx_in,                   \* its value when the turn started
    recipe_detail_requested,
    best,                     \* best_match / best_score of the detail path
    state,                    \* the local ConversationState, unbound until assigned
    plan,                     \* intent, strategy, needs_clarification of the turn
    llm_response_raw,
    llm_response_clean,
    recovery_raw,
    dish_name,
    recipes,
    calls,                    \* the calls issued in this turn, in order
    pending,                  \* indexes of calls issued and not yet completed
    result,                   \* how process_conversation ended
    response,                 \* what /chat answered
    locked_at,                \* first turn that set an active recipe, 0 if none
    client,                   \* the HTTP client side of the call in flight
    cache,                    \* SpoonacularAPI._cache, in the order of the dict
    now,                      \* datetime.now(), in seconds
    req,                      \* the _make_request call of each concurrent turn
    last_ok,                  \* per key, the last response that was cached
    started,                  \* _make_request calls started so far
    ticks,                    \* clock advances so far
    conversation_history,     \* build_conversation_prompt: the earlier messages
    reasoning_note,           \* build_conversation_prompt: the snapshot, empty if none
    messages,                 \* build_conversation_prompt: the list it returns
    service,                  \* the client whose request loop runs: "llm" or "search"
    retries,                  \* self.max_retries of the SpoonacularAPI instance
    answered,                 \* the answers the request loop got, in order
    slept                     \* the delays the request loop slept, in order

chat_vars == <<turn, pc, user_message, context, ctx_in, recipe_detail_requested, best, state,
               plan, llm_response_raw, llm_response_clean, recovery_raw, dish_name, recipes,
               calls, pending, result, response, locked_at, client>>
api_vars == <<cache, now, req, last_ok, started, ticks>>
prompt_vars == <<conversation_history, reasoning_note, messages>>
retry_vars == <<service, retries, answered, slept>>
vars == <<chat_vars, api_vars, prompt_vars, retry_vars>>

Unbound ==
    [bound |-> FALSE, phase |-> "", assistant_intent |-> "", active_recipe |-> NoRecipe,
     allow_recipe_identity_clarification |-> TRUE]
NoPlan == [intent |-> "", strategy |-> "", needs_clarification |-> FALSE, dish_name |-> <<>>]
NoRecipes == [isNone |-> TRUE, list |-> <<>>]
SomeRecipes(list) == [isNone |-> FALSE, list |-> list]
NoResult == [kind |-> "none", text |-> <<>>, recipes |-> NoRecipes, exc |-> ""]
NoResponse == [status |-> 0, message |-> <<>>, error |-> "", detail |-> ""]

RETRY_MESSAGE == <<"I'm having trouble getting the full recipe details right now. Please try again!">>
APOLOGY_MESSAGE == <<"I'm having trouble connecting right now. Please try again in a moment.">>
NOT_SAY_FRAGMENT == "You must NOT say \"I couldn't find anything\""
ATTEMPTED_SEARCH == "We attempted a search but found no exact matches."

\* search_recipes_smart: an allergy is sent under the search API's intolerance name
intolerance_map(a) ==
    CASE a \in {"dairy", "milk", "lactose"} -> "dairy"
      [] a \in {"egg", "eggs"} -> "egg"
      [] a \in {"gluten", "wheat"} -> "gluten"
      [] a \in {"peanut", "peanuts"} -> "peanut"
      [] a \in {"tree nut", "nuts"} -> "tree nut"
      [] a \in {"shellfish", "shrimp"} -> "shellfish"
      [] a \in {"fish", "seafood"} -> "seafood"
      [] OTHER -> a

\* the calls a turn can issue; a search call records the parameters of its request
SearchByName(query, cuisine) ==
    [kind |-> "search", op |-> "search_recipes_by_name", query |-> query, cuisine |-> cuisine,
     diet |-> "", intolerances |-> {}, fragments |-> {}, outcome |-> "pending"]
FilterRecipes(ctx, free_text) ==
    [kind |-> "search", op |-> "filter_recipes", query |-> free_text,
     cuisine |-> ctx.cuisine_preference,
     diet |-> IF ctx.dietary_restrictions = <<>> THEN "" ELSE ctx.dietary_restrictions[1],
     intolerances |-> {intolerance_map(ctx.allergies[k]) : k \in 1..Len(ctx.allergies)},
     fragments |-> {}, outcome |-> "pending"]
FullRecipeFetch(title) ==
    [kind |-> "fetch", op |-> "get_full_recipe", query |-> title, cuisine |-> "",
     diet |-> "", intolerances |-> {}, fragments |-> {}, outcome |-> "pending"]
ConversationPrompt ==
    [kind |-> "llm", op |-> "conversation", query |-> <<>>, cuisine |-> "",
     diet |-> "", intolerances |-> {}, fragments |-> {}, outcome |-> "pending"]
StrictPrompt ==
    [kind |-> "llm", op |-> "strict", query |-> <<>>, cuisine |-> "",
     diet |-> "", intolerances |-> {}, fragments |-> {}, outcome |-> "pending"]
RecoveryPrompt ==
    [kind |-> "llm", op |-> "recovery", query |-> <<>>, cuisine |-> "",
     diet |-> "", intolerances |-> {},
     fragments |-> {ATTEMPTED_SEARCH, NOT_SAY_FRAGMENT}, outcome |-> "pending"]

\* the context a caller hands to the first turn: a new session, or a session
\* restored with the recipes recommended last
InitialContexts ==
    {EmptyContext, [EmptyContext EXCEPT !.last_recommended_recipes = <<<<"pies">>>>]}

\* the locals of a turn before the turn has assigned them
AtRest ==
    /\ turn = 0
    /\ ctx_in = context
    /\ recipe_detail_requested = FALSE
    /\ best = NoMatch
    /\ state = Unbound
    /\ plan = NoPlan
    /\ llm_response_clean = <<>>
    /\ recovery_raw = <<>>
    /\ dish_name = <<>>
    /\ recipes = NoRecipes
    /\ calls = <<>>
    /\ pending = {}
    /\ result = NoResult
    /\ response = NoResponse
    /\ locked_at = 0
    /\ client = IdleClient

\* no turn of /chat has started
ChatInit ==
    /\ pc = "idle"
    /\ user_message = <<>>
    /\ context \in InitialContexts
    /\ llm_response_raw = <<>>
    /\ AtRest

\* no _make_request call has been made
ApiInit ==
    /\ cache = <<>>
    /\ now = 0
    /\ req = [t \in Tasks |-> IdleRequest]
    /\ last_ok = [k \in RequestKeys |-> Never]
    /\ started = 0
    /\ ticks = 0

\* no prompt is being built
NoPrompt ==
    /\ conversation_history = <<>>
    /\ reasoning_note = <<>>
    /\ messages = <<>>

\* no request loop is observed
NoLoop ==
    /\ service = ""
    /\ retries = max_retries
    /\ answered = <<>>
    /\ slept = <<>>

Init == ChatInit /\ ApiInit /\ NoPrompt /\ NoLoop

\* ------------------------------------------------------------------------
\* Calls: every call of the turn is awaited before the turn goes on
\* ------------------------------------------------------------------------
\* a call that is started and never awaited stays in flight
await_call_forgotten(inflight, i) == inflight

\* "await": the call is complete when the coroutine resumes
await_call(inflight, i) == inflight \ {i}

Issue(prior_calls, inflight, c) ==
    /\ calls' = Append(prior_calls, c)
    /\ pending' = inflight \cup {Len(prior_calls) + 1}
    /\ client' = IdleClient

Complete(outcome) ==
    [calls EXCEPT ![Len(calls)].outcome = outcome]

Awaited == await_call(pending, Len(calls))

ResultsOutcome(results) == IF results = <<>> THEN "empty" ELSE "nonempty"

\* ------------------------------------------------------------------------
\* process_conversation
\* ------------------------------------------------------------------------
\* lines 768-824: analysis, strategy, state, prompt, first LLM call issued
BeginConversation(msg, ctx, detail_requested, prior_calls, inflight, turn_no) ==
    LET analysis == analyze_intent_and_constraints(msg, ctx)
        st == TurnState(msg, ctx, detail_requested)
    IN  /\ plan' = [intent |-> analysis.intent,
                    strategy |-> decide_strategy(analysis),
                    needs_clarification |-> should_ask_clarifying_question(analysis, ctx),
                    dish_name |-> analysis.dish_name]
        /\ state' = st
        /\ locked_at' = IF locked_at = 0 /\ st.active_recipe # NoRecipe
                           /\ st.phase \in {COMMITMENT, EXECUTION, ADAPTATION}
                        THEN turn_no ELSE locked_at
        /\ Issue(prior_calls, inflight, ConversationPrompt)
        /\ pc' = "llm_first"

ResetTurn(u) ==
    /\ turn' = turn + 1
    /\ user_message' = u
    /\ ctx_in' = context
    /\ UNCHANGED <<best, llm_response_raw, llm_response_clean, recovery_raw, dish_name, recipes,
                   result, response>>

\* /chat receives a message whose text does not ask for the details of a quoted recipe
StartTurn ==
    /\ pc = "idle"
    /\ turn < MaxTurns
    /\ \E u \in Utterances :
          /\ recipe_detail_title(u) = <<>>
          /\ ResetTurn(u)
          /\ recipe_detail_requested' = FALSE
          /\ BeginConversation(u, context, FALSE, <<>>, {}, turn + 1)
    /\ UNCHANGED context
    /\ UNCHANGED <<api_vars, prompt_vars, retry_vars>>

\* /chat receives a message that asks for the details of a quoted recipe:
\* the recipe-detail path searches for the title first
StartDetailTurn ==
    /\ pc = "idle"
    /\ turn < MaxTurns
    /\ \E u \in Utterances :
          /\ recipe_detail_title(u) # <<>>
          /\ ResetTurn(u)
          /\ recipe_detail_requested' = TRUE
          /\ Issue(<<>>, {}, SearchByName(recipe_detail_title(u), ""))
    /\ state' = Unbound
    /\ plan' = NoPlan
    /\ pc' = "detail_search"
    /\ UNCHANGED <<context, locked_at>>
    /\ UNCHANGED <<api_vars, prompt_vars, retry_vars>>

\* every strategy but ingredient reasoning queries the search API
searches_api_unless_reasoning(strategy) == strategy # INGREDIENT_REASONING

\* if strategy in (Strategy.EXACT_SEARCH, Strategy.LOOSE_SEARCH)
searches_api(strategy) == strategy \in {EXACT_SEARCH, LOOSE_SEARCH}

\* the recovery branch taken only when no search ran at all
needs_recovery_none_only(recs) == recs.isNone

\* if not recipes
needs_recovery(recs) == recs.isNone \/ recs.list = <<>>

\* only a missing record counts as a failed fetch
fetch_failed_none_only(outcome) == outcome = "none"

\* if not full_recipe_result or not full_recipe_result.recipe.ingredients
fetch_failed(outcome) == outcome \in {"none", "no_ingredients"}

\* a return that replaces last_recommended_recipes also when no search ran
Finish_always_replaces(text, recs, ctx) ==
    /\ context' = [ctx EXCEPT !.last_recommended_recipes = recs.list]
    /\ result' = [kind |-> "return", text |-> text, recipes |-> recs, exc |-> ""]
    /\ pc' = "returned"
    /\ client' = IdleClient

\* lines 914-924: last_recommended_recipes follows the search result, then return
Finish(text, recs, ctx) ==
    /\ context' = IF recs.isNone THEN ctx
                  ELSE [ctx EXCEPT !.last_recommended_recipes = recs.list]
    /\ result' = [kind |-> "return", text |-> text, recipes |-> recs, exc |-> ""]
    /\ pc' = "returned"
    /\ client' = IdleClient

Raise(exc) ==
    /\ result' = [kind |-> "raise", text |-> <<>>, recipes |-> NoRecipes, exc |-> exc]
    /\ pc' = "raised"
    /\ client' = IdleClient

\* complex_search_preview and search_spoonacular_recipes: the results of the decoded
\* body become the list, None becomes the empty list
LayerResults(c) ==
    IF c.verdict = "json" THEN SearchResults
    ELSE IF c.verdict = "none" THEN {<<>>}
    ELSE {}

\* _make_request sends one HTTP request for the search in flight; the key of the search
\* is not in the cache (the lookup and the cache are in MakeRequest and HttpResponse)
SearchRequest ==
    /\ pc \in {"detail_search", "search"}
    /\ client.verdict = "pending"
    /\ \E outcome \in SearchEndpointOutcomes : client' = make_request(client, outcome)
    /\ UNCHANGED <<turn, pc, user_message, context, ctx_in, recipe_detail_requested, best,
                   state, plan, llm_response_raw, llm_response_clean, recovery_raw, dish_name,
                   recipes, calls, pending, result, response, locked_at>>
    /\ UNCHANGED <<api_vars, prompt_vars, retry_vars>>

\* call_llm_async sends one HTTP request for the LLM call in flight
LLMRequest ==
    /\ pc \in {"llm_first", "llm_recovery"}
    /\ client.verdict = "pending"
    /\ \E outcome \in LLMEndpointOutcomes : client' = call_llm_async(client, outcome)
    /\ UNCHANGED <<turn, pc, user_message, context, ctx_in, recipe_detail_requested, best,
                   state, plan, llm_response_raw, llm_response_clean, recovery_raw, dish_name,
                   recipes, calls, pending, result, response, locked_at>>
    /\ UNCHANGED <<api_vars, prompt_vars, retry_vars>>

\* the name search of the recipe-detail path returns its candidates
DetailSearchReturns ==
    /\ pc = "detail_search"
    /\ \E results \in LayerResults(client) :
          LET b == best_match_of(recipe_detail_title(user_message), results, NoMatch)
              done == Complete(ResultsOutcome(results))
          IN  /\ best' = b
              /\ IF accept_match(b)
                 THEN /\ Issue(done, Awaited, FullRecipeFetch(b.title))
                      /\ pc' = "detail_fetch"
                      /\ UNCHANGED <<state, plan, locked_at>>
                 ELSE BeginConversation(user_message, context, TRUE, done, Awaited, turn)
    /\ UNCHANGED <<turn, user_message, context, ctx_in, recipe_detail_requested,
                   llm_response_raw, llm_response_clean, recovery_raw, dish_name, recipes,
                   result, response>>
    /\ UNCHANGED <<api_vars, prompt_vars, retry_vars>>

\* get_full_recipe returns; state is a local of process_conversation that is
\* assigned only after this path, so "state.active_recipe = ..." finds it unbound
DetailFetchReturns ==
    /\ pc = "detail_fetch"
    /\ \E outcome \in FetchOutcomes :
          /\ IF fetch_failed(outcome)
             THEN /\ result' = [kind |-> "return", text |-> RETRY_MESSAGE,
                                recipes |-> NoRecipes, exc |-> ""]
                  /\ pc' = "returned"
                  /\ client' = IdleClient
                  /\ calls' = Complete(outcome)
                  /\ pending' = Awaited
             ELSE IF state.bound
             THEN /\ Issue(Complete(outcome), Awaited, StrictPrompt)
                  /\ pc' = "detail_llm"
                  /\ UNCHANGED result
             ELSE /\ Raise("UnboundLocalError")
                  /\ calls' = Complete(outcome)
                  /\ pending' = Awaited
    /\ UNCHANGED <<turn, user_message, context, ctx_in, recipe_detail_requested, best, state,
                   plan, llm_response_raw, llm_response_clean, recovery_raw, dish_name, recipes,
                   response, locked_at>>
    /\ UNCHANGED <<api_vars, prompt_vars, retry_vars>>

\* the first LLM call returns a completion; lines 825-911
FirstLLMReturns ==
    /\ pc = "llm_first"
    /\ client.verdict = "ok"
    /\ \E raw \in LLMOutputs :
          LET clean == strip_structured_tags(raw)
              ctx1 == WithEnoughContext(extract_context_from_response(user_message, context))
              dn == detect_dish_name(user_message)
              should_search == searches_api(plan.strategy) \/ should_search_recipes(raw)
              done == Complete("ok")
          IN  /\ llm_response_raw' = raw
              /\ llm_response_clean' = clean
              /\ dish_name' = dn
              /\ IF should_search \/ dn # <<>>
                 THEN IF searches_api(plan.strategy)
                      THEN /\ Issue(done, Awaited,
                                    IF dn # <<>> THEN SearchByName(dn, ctx1.cuisine_preference)
                                    ELSE FilterRecipes(ctx1, user_message))
                           /\ pc' = "search"
                           /\ context' = ctx1
                           /\ UNCHANGED result
                      ELSE IF needs_recovery(recipes)
                      THEN /\ Issue(done, Awaited, RecoveryPrompt)
                           /\ pc' = "llm_recovery"
                           /\ context' = ctx1
                           /\ UNCHANGED result
                      ELSE /\ Finish(clean, recipes, ctx1)
                           /\ calls' = done
                           /\ pending' = Awaited
                 ELSE /\ Finish(clean, recipes, ctx1)
                      /\ calls' = done
                      /\ pending' = Awaited
    /\ UNCHANGED <<turn, user_message, ctx_in, recipe_detail_requested, best, state, plan,
                   recovery_raw, recipes, response, locked_at>>
    /\ UNCHANGED <<api_vars, prompt_vars, retry_vars>>

\* call_llm_async raises an LLMError out of the first LLM call
FirstLLMRaises ==
    /\ pc = "llm_first"
    /\ client.verdict \notin {"pending", "ok"}
    /\ Raise(client.verdict)
    /\ calls' = Complete("error")
    /\ pending' = Awaited
    /\ UNCHANGED <<turn, user_message, context, ctx_in, recipe_detail_requested, best, state,
                   plan, llm_response_raw, llm_response_clean, recovery_raw, dish_name, recipes,
                   response, locked_at>>
    /\ UNCHANGED <<api_vars, prompt_vars, retry_vars>>

\* the strategy-driven search returns; lines 883-924
SearchReturns ==
    /\ pc = "search"
    /\ \E results \in LayerResults(client) :
          LET recs == SomeRecipes(results)
              done == Complete(ResultsOutcome(results))
          IN  /\ recipes' = recs
              /\ IF needs_recovery(recs)
                 THEN /\ Issue(done, Awaited, RecoveryPrompt)
                      /\ pc' = "llm_recovery"
                      /\ UNCHANGED <<context, result>>
                 ELSE /\ Finish(llm_response_clean, recs, context)
                      /\ calls' = done
                      /\ pending' = Awaited
    /\ UNCHANGED <<turn, user_message, ctx_in, recipe_detail_requested, best, state, plan,
                   llm_response_raw, llm_response_clean, recovery_raw, dish_name, response,
                   locked_at>>
    /\ UNCHANGED <<api_vars, prompt_vars, retry_vars>>

\* the recovery LLM call returns a completion; lines 910-924
RecoveryReturns ==
    /\ pc = "llm_recovery"
    /\ client.verdict = "ok"
    /\ \E raw \in LLMOutputs :
          /\ recovery_raw' = raw
          /\ llm_response_clean' = strip_structured_tags(raw)
          /\ Finish(strip_structured_tags(raw), recipes, context)
    /\ calls' = Complete("ok")
    /\ pending' = Awaited
    /\ UNCHANGED <<turn, user_message, ctx_in, recipe_detail_requested, best, state, plan,
                   llm_response_raw, dish_name, recipes, response, locked_at>>
    /\ UNCHANGED <<api_vars, prompt_vars, retry_vars>>

\* call_llm_async raises an LLMError out of the recovery call
RecoveryRaises ==
    /\ pc = "llm_recovery"
    /\ client.verdict \notin {"pending", "ok"}
    /\ Raise(client.verdict)
    /\ calls' = Complete("error")
    /\ pending' = Awaited
    /\ UNCHANGED <<turn, user_message, context, ctx_in, recipe_detail_requested, best, state,
                   plan, llm_response_raw, llm_response_clean, recovery_raw, dish_name, recipes,
                   response, locked_at>>
    /\ UNCHANGED <<api_vars, prompt_vars, retry_vars>>

\* ------------------------------------------------------------------------
\* /chat: the turn boundary
\* ------------------------------------------------------------------------
ChatUnchanged ==
    UNCHANGED <<turn, user_message, context, ctx_in, recipe_detail_requested, best, state, plan,
                llm_response_raw, llm_response_clean, recovery_raw, dish_name, recipes, calls,
                pending, result, locked_at, client>>

\* process_conversation returned: the text is enforced once more and sent
ChatReturns ==
    /\ pc = "returned"
    /\ response' = [status |-> 200, message |-> strip_structured_tags(result.text),
                    error |-> "", detail |-> ""]
    /\ pc' = "responded"
    /\ ChatUnchanged
    /\ UNCHANGED <<api_vars, prompt_vars, retry_vars>>

\* except LLMError
ChatApologises ==
    /\ pc = "raised"
    /\ result.exc \in LLMErrors
    /\ response' = [status |-> 200, message |-> APOLOGY_MESSAGE, error |-> result.exc,
                    detail |-> ""]
    /\ pc' = "responded"
    /\ ChatUnchanged
    /\ UNCHANGED <<api_vars, prompt_vars, retry_vars>>

\* except Exception: raise HTTPException(status_code=500, detail=str(e))
ChatFails ==
    /\ pc = "raised"
    /\ result.exc \notin LLMErrors
    /\ response' = [status |-> 500, message |-> <<>>, error |-> "", detail |-> result.exc]
    /\ pc' = "responded"
    /\ ChatUnchanged
    /\ UNCHANGED <<api_vars, prompt_vars, retry_vars>>

\* the response is sent: the locals of the turn are gone, the caller keeps the
\* context object for the next turn
TurnEnds ==
    /\ pc = "responded"
    /\ pc' = "idle"
    /\ user_message' = <<>>
    /\ ctx_in' = context
    /\ recipe_detail_requested' = FALSE
    /\ best' = NoMatch
    /\ state' = Unbound
    /\ plan' = NoPlan
    /\ llm_response_raw' = <<>>
    /\ llm_response_clean' = <<>>
    /\ recovery_raw' = <<>>
    /\ dish_name' = <<>>
    /\ recipes' = NoRecipes
    /\ calls' = <<>>
    /\ pending' = {}
    /\ result' = NoResult
    /\ response' = NoResponse
    /\ UNCHANGED <<turn, context, locked_at, client>>
    /\ UNCHANGED <<api_vars, prompt_vars, retry_vars>>

Next ==
    \/ StartTurn
    \/ StartDetailTurn
    \/ SearchRequest
    \/ LLMRequest
    \/ DetailSearchReturns
    \/ DetailFetchReturns
    \/ FirstLLMReturns
    \/ FirstLLMRaises
    \/ SearchReturns
    \/ RecoveryReturns
    \/ RecoveryRaises
    \/ ChatReturns
    \/ ChatApologises
    \/ ChatFails
    \/ TurnEnds

Spec == Init /\ [][Next]_vars

\* ------------------------------------------------------------------------
\* Concurrent turns on the search client and its cache
\* ------------------------------------------------------------------------
\* the process has served searches before: the cache is empty, one short of full or
\* full, and the clock stands where the last of them was stored
CacheInit ==
    /\ ChatInit
    /\ context = EmptyContext
    /\ cache \in InitialCaches
    /\ now = CACHE_LIMIT
    /\ req = [t \in Tasks |-> IdleRequest]
    /\ last_ok = [k \in RequestKeys |->
                    IF Has(cache, k)
                    THEN [at |-> EntryOf(cache, k).timestamp, result |-> EntryOf(cache, k).result]
                    ELSE Never]
    /\ started = 0
    /\ ticks = 0
    /\ NoPrompt
    /\ NoLoop

Other(t) == CHOOSE u \in Tasks : u # t

\* _make_request up to its first await (lines 132-141): the cache is looked up, a valid
\* entry is returned at once
MakeRequest(t) ==
    /\ req[t].pc = "idle"
    /\ started < MaxCalls
    /\ started' = started + 1
    /\ \E key \in RequestKeys :
          LET got == get_cached(cache, key, now)
              hit == got.result # "None"
              both == ~hit /\ req[Other(t)].pc = "awaiting" /\ req[Other(t)].key = key
              mine == [pc |-> IF hit THEN "done" ELSE "awaiting", key |-> key,
                       client |-> IdleClient, answer |-> "", result |-> got.result,
                       entry |-> EntryOf(cache, key), prev |-> last_ok[key], at |-> now,
                       raced |-> both]
          IN  /\ cache' = got.cache
              /\ req' = [req EXCEPT ![t] = mine,
                                    ![Other(t)].raced = IF both THEN TRUE ELSE @]
    /\ UNCHANGED <<now, last_ok, ticks>>
    /\ UNCHANGED <<chat_vars, prompt_vars, retry_vars>>

\* the endpoint answers the request in flight (lines 144-181): a 200 is decoded, cached
\* and returned; the other outcomes retry or return None
HttpResponse(t) ==
    /\ req[t].pc = "awaiting"
    /\ \E outcome \in CacheEndpointOutcomes :
          LET c == make_request(req[t].client, outcome)
          IN  IF c.verdict = "json"
              THEN \E body \in Payloads :
                      /\ cache' = set_cache(cache, req[t].key, body, now)
                      /\ last_ok' = [last_ok EXCEPT ![req[t].key] = [at |-> now, result |-> body]]
                      /\ req' = [req EXCEPT ![t].client = c, ![t].answer = outcome,
                                            ![t].pc = "done", ![t].result = body]
              ELSE /\ req' = [req EXCEPT ![t].client = c, ![t].answer = outcome,
                                         ![t].pc = IF c.verdict = "none" THEN "done"
                                                   ELSE "awaiting"]
                   /\ UNCHANGED <<cache, last_ok>>
    /\ UNCHANGED <<now, started, ticks>>
    /\ UNCHANGED <<chat_vars, prompt_vars, retry_vars>>

\* the caller has the result of the call
CallReturns(t) ==
    /\ req[t].pc = "done"
    /\ req' = [req EXCEPT ![t] = IdleRequest]
    /\ UNCHANGED <<cache, now, last_ok, started, ticks>>
    /\ UNCHANGED <<chat_vars, prompt_vars, retry_vars>>

\* time passes
Tick ==
    /\ ticks < MaxTicks
    /\ ticks' = ticks + 1
    /\ \E d \in Delays : now' = now + d
    /\ UNCHANGED <<cache, req, last_ok, started>>
    /\ UNCHANGED <<chat_vars, prompt_vars, retry_vars>>

CacheNext ==
    \/ \E t \in Tasks : MakeRequest(t)
    \/ \E t \in Tasks : HttpResponse(t)
    \/ \E t \in Tasks : CallReturns(t)
    \/ Tick

CacheSpec == CacheInit /\ [][CacheNext]_vars

\* ------------------------------------------------------------------------
\* The contract enforcer on the completions an LLM can return
\* ------------------------------------------------------------------------
ASSISTANT_INTENT_TAG == "[ASSISTANT_INTENT]"
USER_GOAL_SUMMARY_TAG == "[USER_GOAL_SUMMARY]"
InternalTags == {ASSISTANT_INTENT_TAG, USER_GOAL_SUMMARY_TAG, SEARCH_TAG}

\* what can follow the marker, or stand without it: words, line ends, tags, a snapshot
BodyTokens ==
    {"try", NL, ASSISTANT_INTENT_TAG, USER_GOAL_SUMMARY_TAG, SEARCH_TAG, SNAPSHOT_TAG}
Bodies == SeqsUpTo(BodyTokens, MaxBody)

\* the response format of the system prompt: the two tags, the marker, the message
TaggedText(body) ==
    <<ASSISTANT_INTENT_TAG, Colon, "suggest_options", NL,
      USER_GOAL_SUMMARY_TAG, Colon, "goal", NL,
      "[RESPONSE]", Colon, NL>> \o body

\* completions: in the response format, with the marker alone, without the marker
Completions ==
    {TaggedText(b) : b \in Bodies} \cup {<<"[RESPONSE]", Colon>> \o b : b \in Bodies} \cup Bodies

\* process_conversation has the raw completion of its LLM call
TagInit ==
    /\ pc = "enforce"
    /\ user_message = <<>>
    /\ context = EmptyContext
    /\ llm_response_raw \in Completions
    /\ AtRest
    /\ ApiInit
    /\ NoPrompt
    /\ NoLoop

\* llm_response_clean = strip_structured_tags(llm_response_raw)
EnforceContract ==
    /\ pc = "enforce"
    /\ llm_response_clean' = strip_structured_tags(llm_response_raw)
    /\ pc' = "enforced"
    /\ UNCHANGED <<turn, user_message, context, ctx_in, recipe_detail_requested, best, state,
                   plan, llm_response_raw, recovery_raw, dish_name, recipes, calls, pending,
                   result, response, locked_at, client>>
    /\ UNCHANGED <<api_vars, prompt_vars, retry_vars>>

\* chat: safe_message = strip_structured_tags(response_text), the second enforcement
EnforceAtBoundary ==
    /\ pc = "enforced"
    /\ response' = [status |-> 200, message |-> strip_structured_tags(llm_response_clean),
                    error |-> "", detail |-> ""]
    /\ pc' = "responded"
    /\ UNCHANGED <<turn, user_message, context, ctx_in, recipe_detail_requested, best, state,
                   plan, llm_response_raw, llm_response_clean, recovery_raw, dish_name, recipes,
                   calls, pending, result, locked_at, client>>
    /\ UNCHANGED <<api_vars, prompt_vars, retry_vars>>

TagNext == EnforceContract \/ EnforceAtBoundary

TagSpec == TagInit /\ [][TagNext]_vars

\* ------------------------------------------------------------------------
\* The prompt of the conversation LLM call
\* ------------------------------------------------------------------------
SYSTEM_PROMPT == "You are FEAST, a thoughtful and friendly cooking companion."
CONTEXT_HEADER == "[CONVERSATION CONTEXT]"
HISTORY_WINDOW == 10

\* one line of ConversationContext.to_summary, absent when the field is empty
ListPart(label, list) == IF list = <<>> THEN <<>> ELSE <<label>> \o list
TextPart(label, text) == IF text = "" THEN <<>> ELSE <<label, text>>

RECURSIVE JoinLines(_)
JoinLines(parts) ==
    IF parts = <<>> THEN <<>>
    ELSE IF Len(parts) = 1 THEN Head(parts)
    ELSE Head(parts) \o <<NL>> \o JoinLines(Tail(parts))

\* ConversationContext.to_summary
to_summary(ctx) ==
    LET parts == SelectSeq(<<ListPart("Ingredients:", ctx.ingredients),
                             ListPart("Allergies/Avoid:", ctx.allergies),
                             TextPart("Cuisine:", ctx.cuisine_preference),
                             ListPart("Diet:", ctx.dietary_restrictions),
                             TextPart("Meal type:", ctx.meal_type),
                             TextPart("Time:", ctx.cooking_time)>>,
                           LAMBDA part : part # <<>>)
    IN  IF parts = <<>> THEN <<"No preferences specified yet">> ELSE JoinLines(parts)

\* conversation_history[-10:]
LastOf(history, n) ==
    IF Len(history) <= n THEN history ELSE SubSeq(history, Len(history) - n + 1, Len(history))

\* conversation_history[:10]
FirstOf(history, n) == IF Len(history) <= n THEN history ELSE SubSeq(history, 1, n)

\* a prompt that keeps the oldest messages of the history
build_conversation_prompt_first_ten(message, history, ctx, note) ==
    <<[role |-> "system",
       content |-> IF ctx.ingredients # <<>> \/ ctx.allergies # <<>> \/ ctx.cuisine_preference # ""
                   THEN <<SYSTEM_PROMPT, NL, NL, CONTEXT_HEADER, NL>> \o to_summary(ctx)
                   ELSE <<SYSTEM_PROMPT>>]>>
    \o (IF note # <<>> THEN <<[role |-> "system", content |-> note]>> ELSE <<>>)
    \o [i \in 1..Len(FirstOf(history, HISTORY_WINDOW)) |->
            [role |-> FirstOf(history, HISTORY_WINDOW)[i].role,
             content |-> FirstOf(history, HISTORY_WINDOW)[i].content]]
    \o <<[role |-> "user", content |-> message]>>

build_conversation_prompt(message, history, ctx, note) ==
    <<[role |-> "system",
       content |-> IF ctx.ingredients # <<>> \/ ctx.allergies # <<>> \/ ctx.cuisine_preference # ""
                   THEN <<SYSTEM_PROMPT, NL, NL, CONTEXT_HEADER, NL>> \o to_summary(ctx)
                   ELSE <<SYSTEM_PROMPT>>]>>
    \o (IF note # <<>> THEN <<[role |-> "system", content |-> note]>> ELSE <<>>)
    \o [i \in 1..Len(LastOf(history, HISTORY_WINDOW)) |->
            [role |-> LastOf(history, HISTORY_WINDOW)[i].role,
             content |-> LastOf(history, HISTORY_WINDOW)[i].content]]
    \o <<[role |-> "user", content |-> message]>>

\* the earlier messages of a chat: the roles alternate, every message has its own text
Words == <<"one", "two", "three", "four", "five", "six", "seven", "eight">>
HistoryMessage(i, first) ==
    [role |-> IF i % 2 = first THEN "user" ELSE "assistant",
     content |-> [k \in 1..(((i - 1) \div Len(Words)) + 1) |-> Words[((i - 1) % Len(Words)) + 1]]]
Histories == {[i \in 1..n |-> HistoryMessage(i, first)] : n \in 0..MaxHistory, first \in {0, 1}}

\* the snapshot process_conversation supplies, or none
Notes == {<<>>, <<SNAPSHOT_TAG, NL, "Intent:", "dish_request">>}

PromptContexts ==
    {EmptyContext,
     [EmptyContext EXCEPT !.ingredients = <<"chicken">>],
     [EmptyContext EXCEPT !.allergies = <<"gluten">>, !.cuisine_preference = "italian"],
     [EmptyContext EXCEPT !.dietary_restrictions = <<"vegan">>],
     [EmptyContext EXCEPT !.meal_type = "dinner"],
     [EmptyContext EXCEPT !.cooking_time = "quick"]}

\* process_conversation is about to build the prompt of its LLM call
PromptInit ==
    /\ pc = "build"
    /\ user_message \in Utterances
    /\ context \in PromptContexts
    /\ llm_response_raw = <<>>
    /\ AtRest
    /\ ApiInit
    /\ conversation_history \in Histories
    /\ reasoning_note \in Notes
    /\ messages = <<>>
    /\ NoLoop

\* messages = build_conversation_prompt(user_message, conversation_history, context,
\* reasoning_note)
BuildPrompt ==
    /\ pc = "build"
    /\ messages' = build_conversation_prompt(user_message, conversation_history, context,
                                             reasoning_note)
    /\ pc' = "built"
    /\ UNCHANGED <<turn, user_message, context, ctx_in, recipe_detail_requested, best, state,
                   plan, llm_response_raw, llm_response_clean, recovery_raw, dish_name, recipes,
                   calls, pending, result, response, locked_at, client>>
    /\ UNCHANGED <<api_vars, conversation_history, reasoning_note, retry_vars>>

PromptNext == BuildPrompt

PromptSpec == PromptInit /\ [][PromptNext]_vars

\* ------------------------------------------------------------------------
\* The request loops of the two clients and the delays they sleep
\* ------------------------------------------------------------------------
MaxConfiguredRetries == 4

\* one call of call_llm_async, or one call of _make_request that missed the cache on an
\* instance with max_retries set
RetryInit ==
    /\ pc = "call"
    /\ user_message = <<>>
    /\ context = EmptyContext
    /\ llm_response_raw = <<>>
    /\ AtRest
    /\ ApiInit
    /\ NoPrompt
    /\ service \in {"llm", "search"}
    /\ retries \in IF service = "search" THEN 1..MaxConfiguredRetries ELSE {max_retries}
    /\ answered = <<>>
    /\ slept = <<>>

LoopUnchanged ==
    /\ UNCHANGED <<turn, pc, user_message, context, ctx_in, recipe_detail_requested, best,
                   state, plan, llm_response_raw, llm_response_clean, recovery_raw, dish_name,
                   recipes, calls, pending, result, response, locked_at>>
    /\ UNCHANGED <<api_vars, prompt_vars, service, retries>>

\* one attempt of call_llm_async: the request, its answer, and the sleep before the
\* next attempt
LLMAttempt ==
    /\ pc = "call"
    /\ service = "llm"
    /\ client.verdict = "pending"
    /\ \E a \in LLMAnswers :
          /\ client' = call_llm_async(client, StatusOf(a))
          /\ answered' = Append(answered, a)
          /\ slept' = IF client'.verdict = "pending"
                      THEN Append(slept, llm_backoff(client.requests, a))
                      ELSE slept
    /\ LoopUnchanged

\* one attempt of _make_request
SearchAttempt ==
    /\ pc = "call"
    /\ service = "search"
    /\ client.verdict = "pending"
    /\ \E outcome \in RetryEndpointOutcomes :
          /\ client' = make_request_of(client, outcome, retries)
          /\ answered' = Append(answered, Plain(outcome))
          /\ slept' = IF client'.verdict = "pending"
                      THEN Append(slept, search_backoff(client.requests))
                      ELSE slept
    /\ LoopUnchanged

RetryNext == LLMAttempt \/ SearchAttempt

RetrySpec == RetryInit /\ [][RetryNext]_vars

\* ------------------------------------------------------------------------
\* Properties
\* ------------------------------------------------------------------------
TurnOver == pc \in {"returned", "raised", "responded"}
TurnReturned == pc \in {"returned", "responded"} /\ result.kind = "return"

CallIdx == 1..Len(calls)
SearchIdx == {i \in CallIdx : calls[i].kind = "search"}
FetchIdx == {i \in CallIdx : calls[i].kind = "fetch"}
LLMIdx == {i \in CallIdx : calls[i].kind = "llm"}
RecoveryIdx == {i \in CallIdx : calls[i].op = "recovery"}
HasFragment(i) == calls[i].kind = "llm" /\ NOT_SAY_FRAGMENT \in calls[i].fragments

\* the utterance names a dish by any of the detectors of the turn
NamesADish(u) ==
    \/ AnalysisDishName(u) # <<>>
    \/ recipe_detail_title(u) # <<>>
    \/ detect_dish_name(u) # <<>>

\* the name search of the detail path is back and no candidate passed the threshold
ThresholdMissed ==
    /\ recipe_detail_requested
    /\ Len(calls) >= 1
    /\ calls[1].outcome # "pending"
    /\ (~best.found \/ best.score <= 60)

\* the full-record fetch of the detail path is back with this outcome
Fetched(outcomes) ==
    /\ Len(calls) >= 2
    /\ calls[2].kind = "fetch"
    /\ calls[2].outcome \in outcomes

\* lines 768-824 have just run: the analysis, the strategy and the state of the turn
\* are made and the first LLM call has sent nothing yet; the turn does not change
\* them afterwards
AnalysisJustMade == pc = "llm_first" /\ client = IdleClient /\ state.bound

\* C1: the assistant intent of every turn (choose_assistant_intent followed by the
\* correction step) is a member of the legal set of the turn's phase.
C1_IntentInLegalSet ==
    state.bound => state.assistant_intent \in AllowedIntents(state.phase)

\* C2: once a turn has set an active recipe in phase COMMITMENT, EXECUTION or
\* ADAPTATION, every later turn of the lineage has
\* allow_recipe_identity_clarification = false and does not choose
\* ask_clarifying_question, unless its utterance names a dish.
C2_LockPersists ==
    (locked_at > 0 /\ turn > locked_at /\ state.bound /\ ~NamesADish(user_message))
        => (~state.allow_recipe_identity_clarification
            /\ state.assistant_intent # ASK_CLARIFYING_QUESTION)

\* C3: ask_clarifying_question is the turn's assistant intent only when
\* needs_clarification is true and allow_recipe_identity_clarification is true.
C3_NoAskWhenForbidden ==
    (state.bound /\ state.assistant_intent = ASK_CLARIFYING_QUESTION)
        => (plan.needs_clarification /\ state.allow_recipe_identity_clarification)

\* C3 witness: a discovery turn whose clarification gate is closed suggests options.
C3_Witness ==
    /\ state.bound
    /\ state.phase = DISCOVERY
    /\ plan.intent # "learning"
    /\ ~plan.needs_clarification
    /\ state.assistant_intent = SUGGEST_OPTIONS

C5_RecoveryOnlyAfterEmptySearch ==
    /\ \A j \in RecoveryIdx :
          \E i \in SearchIdx : i < j /\ calls[i].outcome = "empty"
    /\ (TurnReturned /\ plan.strategy \in {NO_SEARCH, INGREDIENT_REASONING} /\ SearchIdx = {})
          => (RecoveryIdx = {} /\ result.text = strip_structured_tags(llm_response_raw))

C7_DetailSuccessPresents ==
    (TurnOver /\ Fetched({"full"}))
        => /\ result.kind = "return"
           /\ Len(calls) = 3
           /\ calls[1].kind = "search"
           /\ calls[3].op = "strict"
           /\ result.recipes.isNone
           /\ context = ctx_in

\* C8: when the full-record fetch fails (nothing, or a recipe without ingredients) the
\* turn returns the fixed retry message with no recipe list and the context unchanged,
\* and issues no LLM call.
C8_FetchFailureRetries ==
    Fetched({"none", "no_ingredients"})
        => /\ best.score > 60
           /\ TurnReturned
           /\ result.text = RETRY_MESSAGE
           /\ result.recipes.isNone
           /\ context = ctx_in
           /\ LLMIdx = {}
           /\ Len(calls) = 2

\* C8 witness: the fetch brought a recipe without ingredients and the turn returned.
C8_Witness ==
    /\ pc = "returned"
    /\ Fetched({"no_ingredients"})
    /\ result.text = RETRY_MESSAGE

\* C9: every turn that ends by raising is answered by /chat with the fixed apology
\* message and the raw error in the error field, never with the exception text.
C9_FailuresBecomeApology ==
    (pc = "responded" /\ result.kind = "raise")
        => /\ response.status = 200
           /\ response.message = APOLOGY_MESSAGE
           /\ response.error = result.exc
           /\ response.detail = ""

\* every call but the last is complete, and at most one call is in flight
CallsSequential ==
    /\ Cardinality(pending) <= 1
    /\ \A i \in CallIdx : i < Len(calls) => calls[i].outcome # "pending"
    /\ \A i \in pending : i = Len(calls)

C12_LooseSearchCarriesConstraints ==
    \A i \in SearchIdx :
        (plan.strategy = LOOSE_SEARCH /\ \E j \in LLMIdx : j < i)
            => /\ calls[i].cuisine = context.cuisine_preference
               /\ (context.dietary_restrictions # <<>>
                      => calls[i].diet = context.dietary_restrictions[1])
               /\ calls[i].intolerances =
                      {intolerance_map(context.allergies[k]) : k \in 1..Len(context.allergies)}

\* C13: the strategy is a function of the intent class alone: specific_dish gives
\* EXACT_SEARCH, ingredient_based INGREDIENT_REASONING, constraint_based and browsing
\* LOOSE_SEARCH, learning NO_SEARCH, whatever the other fields of the analysis are.
C13_StrategyFollowsIntent ==
    LET expected(intent) ==
            CASE intent = "specific_dish" -> EXACT_SEARCH
              [] intent = "ingredient_based" -> INGREDIENT_REASONING
              [] intent = "learning" -> NO_SEARCH
              [] OTHER -> LOOSE_SEARCH
        analysis == [intent |-> "", required_ingredients |-> <<>>,
                     optional_ingredients |-> <<>>, hard_constraints |-> <<>>,
                     soft_constraints |-> <<>>, dish_name |-> <<>>]
    IN  /\ plan.intent # "" => plan.strategy = expected(plan.intent)
        /\ \A intent \in {"specific_dish", "ingredient_based", "constraint_based",
                          "browsing", "learning"} :
              \A dish \in {<<>>, <<"pasta">>} :
                 \A opt \in {<<>>, <<<<"chicken">>>>} :
                    decide_strategy([analysis EXCEPT !.intent = intent, !.dish_name = dish,
                                                     !.optional_ingredients = opt])
                        = expected(intent)

\* C13 witness: a learning turn that also resolved a dish name runs with NO_SEARCH.
C13_Witness ==
    /\ pc = "llm_first"
    /\ plan.intent = "learning"
    /\ plan.dish_name # <<>>
    /\ plan.strategy = NO_SEARCH

\* C14: the intent class of the turn is the one of the first signal present, in the
\* order learning keyword, resolved dish name, optional ingredients, any hard or soft
\* constraint, and browsing when none is present.
C14_IntentByPriority ==
    LET learning == AnyKeyword(user_message, learning_words)
        dish == AnalysisDishName(user_message) # <<>>
        ingredients == OptionalIngredients(user_message) # <<>>
        constrained == \/ HardConstraints(user_message, ctx_in) # <<>>
                       \/ SoftConstraints(user_message, ctx_in) # <<>>
    IN  AnalysisJustMade
            => /\ plan.intent \in {"learning", "specific_dish", "ingredient_based",
                                   "constraint_based", "browsing"}
               /\ plan.intent = "learning" <=> learning
               /\ plan.intent = "specific_dish" <=> (~learning /\ dish)
               /\ plan.intent = "ingredient_based" <=> (~learning /\ ~dish /\ ingredients)
               /\ plan.intent = "constraint_based"
                     <=> (~learning /\ ~dish /\ ~ingredients /\ constrained)
               /\ plan.intent = "browsing"
                     <=> (~learning /\ ~dish /\ ~ingredients /\ ~constrained)

\* C14 witness: an utterance that lists ingredients under a remembered allergy is
\* ingredient_based, not constraint_based.
C14_Witness ==
    /\ AnalysisJustMade
    /\ plan.intent = "ingredient_based"
    /\ OptionalIngredients(user_message) # <<>>
    /\ HardConstraints(user_message, ctx_in) # <<>>

\* C15: the phase of the turn is the one of the first rule that matches, in the order
\* adaptation keyword (ADAPTATION), execution keyword (EXECUTION), recipe-detail
\* request or resolved dish name (COMMITMENT), choice keyword (COMMITMENT), options
\* already recommended (NARROWING), learning or browsing intent (DISCOVERY), ingredient
\* or constraint intent (NARROWING when the context has ingredients or dietary
\* restrictions, else DISCOVERY), otherwise DISCOVERY; it is computed from the
\* utterance, the incoming context and the analysis of this turn only.
C15_PhaseByFirstRule ==
    LET r1 == AnyKeyword(user_message, adaptation_keywords)
        r2 == AnyKeyword(user_message, execution_keywords)
        r3 == recipe_detail_requested \/ plan.dish_name # <<>>
        r4 == AnyKeyword(user_message, choice_keywords)
        r5 == ctx_in.last_recommended_recipes # <<>>
        r6 == plan.intent \in {"learning", "browsing"}
        r7 == /\ plan.intent \in {"ingredient_based", "constraint_based"}
              /\ (ctx_in.ingredients # <<>> \/ ctx_in.dietary_restrictions # <<>>)
    IN  AnalysisJustMade
            => /\ r1 => state.phase = ADAPTATION
               /\ (~r1 /\ r2) => state.phase = EXECUTION
               /\ (~r1 /\ ~r2 /\ (r3 \/ r4)) => state.phase = COMMITMENT
               /\ (~r1 /\ ~r2 /\ ~r3 /\ ~r4 /\ r5) => state.phase = NARROWING
               /\ (~r1 /\ ~r2 /\ ~r3 /\ ~r4 /\ ~r5 /\ r6) => state.phase = DISCOVERY
               /\ (~r1 /\ ~r2 /\ ~r3 /\ ~r4 /\ ~r5 /\ ~r6 /\ r7) => state.phase = NARROWING
               /\ (~r1 /\ ~r2 /\ ~r3 /\ ~r4 /\ ~r5 /\ ~r6 /\ ~r7) => state.phase = DISCOVERY

\* C15 witness: a turn is in DISCOVERY although an earlier turn of the lineage was
\* committed to a recipe.
C15_Witness ==
    /\ AnalysisJustMade
    /\ locked_at > 0
    /\ turn > locked_at
    /\ state.bound
    /\ state.phase = DISCOVERY

\* C16: a turn whose utterance declares an allergy, taken with an empty context and no
\* recipe made active before, is in neither EXECUTION nor ADAPTATION.
C16_AllergyDeclarationPhase ==
    (/\ state.bound
     /\ ctx_in = EmptyContext
     /\ locked_at = 0
     /\ state.active_recipe = NoRecipe
     /\ HasPhrase(user_message, <<"allergic">>))
        => state.phase \notin {EXECUTION, ADAPTATION}

\* C17: when the utterance pairs an allergy or avoidance keyword with a known allergen,
\* the hard-constraint list of the turn's analysis names that allergen exactly once,
\* on the first turn and on every repetition with the context handed back.
C17_AllergenExactlyOnce ==
    LET hard == HardConstraints(user_message, ctx_in)
        cue == AnyKeyword(user_message, allergy_keywords) \/ HasNoBlank(user_message)
    IN  \A k \in 1..Len(allergens) :
           (state.bound /\ cue /\ InText(user_message, allergens[k]))
               => Cardinality({i \in 1..Len(hard) : hard[i] = <<"avoid", allergens[k]>>}) = 1

\* C18: whatever the recipe endpoint answers to the requests of a search (success, 402,
\* 429, 5xx, other 4xx, timeout, transport error), the search layer ends by handing a
\* list, possibly empty, to the turn controller and never by raising.
C18_SearchLayerNeverRaises ==
    /\ pc \in {"detail_search", "search"}
          => /\ client.verdict \in {"pending", "json", "none"}
             /\ client.requests <= max_retries
             /\ (client.verdict = "none" => LayerResults(client) = {<<>>})
             /\ (client.verdict = "json" => LayerResults(client) = SearchResults)
    /\ \A i \in SearchIdx : calls[i].outcome \in {"pending", "empty", "nonempty"}
    /\ result.kind = "raise" => calls[Len(calls)].kind # "search"

\* C18 witness: the third request of a strategy search timed out and the layer ended
\* with nothing to decode.
C18_Witness ==
    /\ pc = "search"
    /\ client.requests = max_retries
    /\ client.last = "timeout"
    /\ client.verdict = "none"

\* C19: an LLM call sends at most LLM_MAX_RETRIES HTTP requests; once it has sent that
\* many it has ended, with a completion or with an exception.
C19_AtMostMaxRetriesRequests ==
    pc \in {"llm_first", "llm_recovery"}
        => /\ client.requests <= LLM_MAX_RETRIES
           /\ (client.requests = LLM_MAX_RETRIES => client.verdict # "pending")
           /\ (client.verdict = "pending" => client.last = "")

\* C19 witness: the third request of the first LLM call timed out and the call ended
\* by raising.
C19_Witness ==
    /\ pc = "llm_first"
    /\ client.requests = LLM_MAX_RETRIES
    /\ client.last = "timeout"
    /\ client.verdict = "APIError"

\* C20: when the last permitted attempt of an LLM call fails, the call raises
\* RateLimitError if the response was HTTP 429 and APIError otherwise, both of them
\* LLMError subtypes.
C20_FinalFailureTyped ==
    (/\ pc \in {"llm_first", "llm_recovery"}
     /\ client.requests = LLM_MAX_RETRIES
     /\ client.verdict \notin {"pending", "ok"})
        => /\ client.verdict \in LLMErrors
           /\ client.verdict = "RateLimitError" <=> client.last \in {"429", "429_http_date"}

\* C21: in the LLM client a transient failure (timeout, HTTP 5xx, network error) is
\* retried while attempts remain: a call that ended on one of them has used every
\* attempt.
C21_TransientRetriedUntilBudget ==
    (/\ pc \in {"llm_first", "llm_recovery"}
     /\ client.last \in {"timeout", "503", "network_error"}
     /\ client.verdict \notin {"pending", "ok"})
        => client.requests = LLM_MAX_RETRIES

\* the step in which the call of turn t gets its answer
Answered(t) == req[t].pc = "awaiting" /\ req'[t].client.requests = req[t].client.requests + 1
\* the step in which the call of turn t decodes a 200 and writes it to the cache
Written(t) == Answered(t) /\ req'[t].client.verdict = "json"
\* the call of turn t found its key in the cache, stored less than the TTL before
FoundFresh(t) ==
    /\ req[t].pc # "idle"
    /\ req[t].entry # NoEntry
    /\ req[t].at - req[t].entry.timestamp < cache_ttl
\* the call of turn t was answered from the cache, without a request
ServedFromCache(t, body) ==
    /\ req[t].pc = "done"
    /\ req[t].client.requests = 0
    /\ req[t].result = body

C23_SecondCallWithinTTLIsCached ==
    \A t \in Tasks :
        (/\ req[t].pc # "idle"
         /\ req[t].prev # Never
         /\ req[t].at - req[t].prev.at < cache_ttl)
            => ServedFromCache(t, req[t].prev.result)

\* C23: a request whose key is in the cache, stored less than the TTL before, sends no
\* HTTP request and returns the cached result.
C23_FreshEntryIsServed ==
    \A t \in Tasks : FoundFresh(t) => ServedFromCache(t, req[t].entry.result)

\* C23 witness: a call stored a response for a key no call had asked for, and a second
\* call for that key, within the TTL, is done without a request and has that response.
C23_Witness ==
    \E t \in Tasks :
        /\ req[t].key = CACHE_LIMIT + 1
        /\ req[t].prev # Never
        /\ FoundFresh(t)
        /\ ServedFromCache(t, req[t].prev.result)

\* C24: a request whose key is in the cache, stored at least the TTL before (a day or
\* more included), is not served from the cache: it goes to the network.
C24_ExpiredEntryIsRefetched ==
    \A t \in Tasks :
        (/\ req[t].pc # "idle"
         /\ req[t].entry # NoEntry
         /\ req[t].at - req[t].entry.timestamp >= cache_ttl)
            => ~(req[t].pc = "done" /\ req[t].client.requests = 0)

\* the keys of the cache, and its entries of keys other than k
Keys(c) == {c[i].key : i \in 1..Len(c)}
Others(c, k) == {c[i] : i \in {j \in 1..Len(c) : c[j].key # k}}

BothWrote ==
    /\ \A t \in Tasks : req[t].pc = "done" /\ req[t].raced /\ req[t].client.verdict = "json"
    /\ req[1].key = req[2].key

\* C26 as stated: a write of two turns that race for a key leaves every entry of another
\* key in the cache as it was.
C26_RaceLosesNoOtherEntry ==
    [][\A t \in Tasks :
          (Written(t) /\ req[t].raced)
              => Others(cache', req[t].key) = Others(cache, req[t].key)]_vars

\* C26: when two turns race for a key and both write, the cache holds one entry for the
\* key, the one written last, within the size bound; each of the two writes leaves the
\* entries of other keys as they were, but for the oldest, which a write into the full
\* cache evicts.
C26_RaceLastWriterWins ==
    [][/\ BothWrote' =>
            /\ Cardinality({i \in 1..Len(cache') : cache'[i].key = req'[1].key}) = 1
            /\ EntryOf(cache', req'[1].key).result = last_ok'[req'[1].key].result
            /\ EntryOf(cache', req'[1].key).timestamp = last_ok'[req'[1].key].at
            /\ \E t \in Tasks : req'[t].result = last_ok'[req'[1].key].result
            /\ Len(cache') <= CACHE_LIMIT
       /\ \A t \in Tasks :
            (Written(t) /\ req[t].raced)
                => /\ Others(cache', req[t].key) \subseteq Others(cache, req[t].key)
                   /\ \A e \in Others(cache, req[t].key) \ Others(cache', req[t].key) :
                         /\ Len(cache) = CACHE_LIMIT
                         /\ req[t].key \notin Keys(cache)
                         /\ e = cache[oldest(cache)]]_vars

\* C26 witness: both turns missed the new key on the full cache and wrote different
\* results; the cache has the one written last.
C26_Witness ==
    /\ BothWrote
    /\ req[1].key = CACHE_LIMIT + 1
    /\ req[1].result # req[2].result
    /\ Len(cache) = CACHE_LIMIT
    /\ ~Has(cache, 1)

\* the tokens of the text that are internal tags or open a reasoning snapshot
Leaked(text) == {text[i] : i \in 1..Len(text)} \cap (InternalTags \cup {SNAPSHOT_TAG})

\* C27: strip_structured_tags of a text in the response format returns the text after
\* the marker, and nothing internal is in what it returns: no tag and no snapshot, also
\* when they stand after the marker.
C27_TaggedTextRoundTrip ==
    pc = "enforced" =>
        \A b \in Bodies :
            (llm_response_raw = TaggedText(b) /\ StripWs(b) # <<>>)
                => /\ Leaked(llm_response_clean) = {}
                   /\ (Leaked(b) = {} => llm_response_clean = StripWs(b))

\* C28: strip_structured_tags of a text without the marker returns a text with no
\* internal tag and no reasoning snapshot.
C28_NoMarkerNoTagLeft ==
    (pc = "enforced" /\ MarkerPositions(llm_response_raw) = {})
        => Leaked(llm_response_clean) = {}

\* C29: strip_structured_tags never returns an empty or blank text.
C29_NeverBlank ==
    pc = "enforced" => StripWs(llm_response_clean) # <<>>

\* C30: the messages build_conversation_prompt returns are, in this order: the system
\* instructions; the snapshot as a second system message if and only if one was given;
\* the last HISTORY_WINDOW messages of the history, or all of them when there are fewer,
\* in their order and with their role and content; the user's message, last.
C30_PromptOrder ==
    pc = "built" =>
        LET n == Len(conversation_history)
            kept == IF n < HISTORY_WINDOW THEN n ELSE HISTORY_WINDOW
            lead == IF reasoning_note # <<>> THEN 2 ELSE 1
        IN  /\ Len(messages) = lead + kept + 1
            /\ messages[1].role = "system"
            /\ Head(messages[1].content) = SYSTEM_PROMPT
            /\ reasoning_note # <<>>
                   => messages[2] = [role |-> "system", content |-> reasoning_note]
            /\ reasoning_note = <<>> => messages[2].role # "system"
            /\ \A j \in 1..kept : messages[lead + j] = conversation_history[n - kept + j]
            /\ messages[Len(messages)] = [role |-> "user", content |-> user_message]

\* C30 witness: a prompt built with a snapshot from a history longer than the window:
\* the window's messages stand between the two system messages and the user's message.
C30_Witness ==
    /\ pc = "built"
    /\ reasoning_note # <<>>
    /\ Len(conversation_history) > HISTORY_WINDOW
    /\ Len(messages) = HISTORY_WINDOW + 3
    /\ messages[3] = conversation_history[Len(conversation_history) - HISTORY_WINDOW + 1]
    /\ messages[3] # conversation_history[1]

\* a preference of the summary is known in the context
PreferenceKnown(ctx) ==
    \/ ctx.ingredients # <<>>
    \/ ctx.allergies # <<>>
    \/ ctx.cuisine_preference # ""
    \/ ctx.dietary_restrictions # <<>>
    \/ ctx.meal_type # ""
    \/ ctx.cooking_time # ""

\* C31: the system message of the prompt carries the context summary whenever any
\* preference is known (ingredients, allergies, cuisine, diet, meal type or cooking
\* time), and is the bare system prompt only when none is known.
C31_SummaryWheneverPreferenceKnown ==
    pc = "built" =>
        /\ PreferenceKnown(context)
               => messages[1].content
                      = <<SYSTEM_PROMPT, NL, NL, CONTEXT_HEADER, NL>> \o to_summary(context)
        /\ ~PreferenceKnown(context) => messages[1].content = <<SYSTEM_PROMPT>>

\* the searches of the turn that process_conversation ran for its strategy
StrategySearchIdx == {i \in SearchIdx : i > 1 \/ ~recipe_detail_requested}

\* C32: within a turn, context.last_recommended_recipes differs from its value at the
\* start of the turn only if a recipe search ran in the turn, and then it is the list of
\* the titles the search returned (empty when the search found nothing); a turn without
\* a search leaves it as it was, and a turn that returns after its strategy-driven search
\* holds the titles of that search.
C32_RecommendedFollowsSearch ==
    /\ SearchIdx = {} => context.last_recommended_recipes = ctx_in.last_recommended_recipes
    /\ context.last_recommended_recipes # ctx_in.last_recommended_recipes
           => /\ StrategySearchIdx # {}
              /\ ~recipes.isNone
              /\ context.last_recommended_recipes = recipes.list
    /\ (TurnReturned /\ StrategySearchIdx # {})
           => /\ ~recipes.isNone
              /\ context.last_recommended_recipes = recipes.list
              /\ (\E i \in StrategySearchIdx : calls[i].outcome = "empty")
                     => context.last_recommended_recipes = <<>>

\* C32 witness: a turn that started with recommended recipes ran a search that found
\* nothing and returned with the empty list.
C32_Witness ==
    /\ TurnReturned
    /\ ctx_in.last_recommended_recipes # <<>>
    /\ StrategySearchIdx # {}
    /\ recipes = SomeRecipes(<<>>)
    /\ context.last_recommended_recipes = <<>>

\* list "old" is the beginning of list "new"
GrewFrom(old, new) == Len(old) <= Len(new) /\ SubSeq(new, 1, Len(old)) = old
NoDuplicates(list) == \A i, j \in 1..Len(list) : list[i] = list[j] => i = j

\* C33: in every step of every turn each of the context's ingredients, allergies and
\* dietary_restrictions keeps all its elements in their order, and what the step adds was
\* not in the list: the lists stay free of duplicates.
C33_ListsOnlyGrow ==
    /\ NoDuplicates(context.ingredients)
    /\ NoDuplicates(context.allergies)
    /\ NoDuplicates(context.dietary_restrictions)
    /\ [][/\ GrewFrom(context.ingredients, context'.ingredients)
          /\ GrewFrom(context.allergies, context'.allergies)
          /\ GrewFrom(context.dietary_restrictions, context'.dietary_restrictions)
          /\ NoDuplicates(context'.ingredients)
          /\ NoDuplicates(context'.allergies)
          /\ NoDuplicates(context'.dietary_restrictions)]_vars

\* C33 witness: the second turn names an ingredient the context already holds and a new
\* one: the list holds the old one once and the new one after it.
C33_Witness ==
    /\ turn = 2
    /\ pc = "returned"
    /\ ctx_in.ingredients = <<"chicken">>
    /\ InText(user_message, "chicken")
    /\ context.ingredients = <<"chicken", "rice">>

\* attempt k (counting from 0) of the loop has been answered, and the answer it got
AttemptsMade == 0..(Len(answered) - 1)
AnswerOf(k) == answered[k + 1]
\* the loop went on after attempt k: it slept and made, or is about to make, attempt k + 1
WentOn(k) == Len(slept) > k /\ (Len(answered) > k + 1 \/ client.verdict = "pending")

\* C34: in the LLM client, after a 429 on a non-final attempt k the loop goes on after a
\* wait of the Retry-After value when the header is present (of its seconds when it
\* gives seconds) and of 2^k seconds when it is absent; after a timeout or a transport
\* error on a non-final attempt k it goes on after 2^k seconds; there is no wait after
\* the final attempt.
C34_LLMBackoff ==
    service = "llm" =>
        /\ Len(slept) <= LLM_MAX_RETRIES - 1
        /\ \A k \in AttemptsMade :
              (k < LLM_MAX_RETRIES - 1
                  /\ AnswerOf(k).outcome \in {"429", "timeout", "network_error"})
                 => /\ WentOn(k)
                    /\ AnswerOf(k).header = "seconds" => slept[k + 1] = AnswerOf(k).seconds
                    /\ AnswerOf(k).header = "absent" => slept[k + 1] = 2 ^ k

\* answers of the recipe endpoint that are transient failures: a timeout, a transport
\* error, 429 and every 5xx status
TransientSearchFailures == {"timeout", "network_error", "429", "500", "504"}

\* C35: in the search client every transient failure on a non-final attempt is followed
\* by another attempt; the loop makes at most max_retries attempts.
C35_TransientSearchFailureRetried ==
    service = "search" =>
        /\ Len(answered) <= retries
        /\ \A k \in AttemptsMade :
              (k < retries - 1 /\ AnswerOf(k).outcome \in TransientSearchFailures)
                 => WentOn(k)

C37_FailedTurnLeavesContext ==
    (pc = "raised" /\ result.kind = "raise") => context = ctx_in

\* C38: strip_structured_tags applied to its own output returns that output: the
\* enforcement at the /chat boundary leaves an enforced text as it is.
C38_EnforcementIdempotent ==
    pc = "responded" => response.message = llm_response_clean

\* C39: in a turn that starts with recommended recipes in the context, the phase
\* inferred is not DISCOVERY and the assistant intent is not ask_clarifying_question,
\* whatever the user says.
C39_NoDiscoveryAfterOptions ==
    (state.bound /\ ctx_in.last_recommended_recipes # <<>>)
        => /\ state.phase # DISCOVERY
           /\ state.assistant_intent # ASK_CLARIFYING_QUESTION
           /\ determine_conversation_phase(user_message, ctx_in,
                    analyze_intent_and_constraints(user_message, ctx_in),
                    recipe_detail_requested) # DISCOVERY

\* C39 witness: a browsing message with nothing to go on, for which a clarifying
\* question would be asked in discovery, is answered in NARROWING with options because
\* recipes were recommended before.
C39_Witness ==
    /\ state.bound
    /\ ctx_in.last_recommended_recipes # <<>>
    /\ plan.intent = "browsing"
    /\ plan.needs_clarification
    /\ state.phase = NARROWING
    /\ state.assistant_intent = SUGGEST_OPTIONS

\* C40: whatever the LLM endpoint answers, call_llm_async is still trying, has returned
\* a completion, or has raised an LLMError subtype: no other exception leaves it.
C40_OnlyLLMErrorsEscape ==
    service = "llm" => client.verdict \in {"pending", "ok"} \cup LLMErrors

====
